---- MODULE Spec2Model ----
(***************************************************************************)
(* ActiveTigger: the project orchestration and active-learning engine.     *)
(*                                                                         *)
(* State machine of one loaded project: the annotation history and the     *)
(* coding schemes (class Schemes, src/api/activetigger/server.py), the     *)
(* element selection (Project.get_next) and the feature catalog            *)
(* (class Features, src/api/activetigger/features.py).                     *)
(*                                                                         *)
(* Conventions                                                             *)
(*  - Null is Python's None / SQL NULL / pandas NaN.                       *)
(*  - A handler that returns {"error": ...} has res = "error"; one that    *)
(*    raises has res = "raise"; both leave the store as the code does.     *)
(*  - The database clock is `now`: CURRENT_TIMESTAMP has a resolution of   *)
(*    one second, so rows inserted before the next Tick share their time.  *)
(*  - `ret` is the last call: its name, its arguments and what it gave.    *)
(***************************************************************************)
EXTENDS Integers, Sequences, FiniteSets, TLC

VARIABLES
    annotations,  \* table annotations of the project, in rowid order
    schemes,      \* table schemes of the project, in rowid order
    now,          \* the value CURRENT_TIMESTAMP yields (seconds)
    simplemodels, \* (user, scheme) -> table of probabilities of the quick model
    projections,  \* Features.projections: user -> computed 2-D projection
    features_file,\* the features parquet file: row count and column names
    features_db,  \* table features (metadata), in rowid order
    map,          \* Features.map: feature name -> columns of the file
    current,      \* Queue.current: the ids of the stack
    futures,      \* the futures of the executor, by unique id
    reported,     \* what Queue.state last reported for each id
    state_call,   \* the call of Queue.state in progress, if any
    training,     \* Features.training: feature name -> unique id
    computing,    \* the list of the jobs in progress of the project
    dirs,         \* the project directories of the disk, by slug
    database,     \* the tables of the server that have a project column
    projects,     \* Server.projects: the slugs of the loaded projects
    models,       \* table models, in rowid order
    model_paths,  \* the names of the directories of quickmodels/
    pushing,      \* the calls of push_tag in progress, by caller
    ret           \* the last call and its result

schemeVars == <<annotations, schemes, now>>
selectionVars == <<simplemodels, projections>>
featureVars == <<features_file, features_db, map>>
queueVars == <<current, futures, reported, state_call>>
jobVars == <<training, computing>>
projectVars == <<dirs, database, projects>>
modelVars == <<models, model_paths>>
writerVars == <<pushing>>
vars == <<schemeVars, selectionVars, featureVars, queueVars, jobVars,
          projectVars, modelVars, writerVars, ret>>

\* what an operation of one component leaves alone
exceptSchemes ==
    <<selectionVars, featureVars, queueVars, jobVars, projectVars, modelVars,
      writerVars>>
exceptFeatures ==
    <<schemeVars, selectionVars, queueVars, jobVars, projectVars, modelVars,
      writerVars>>
exceptRet ==
    <<schemeVars, selectionVars, featureVars, queueVars, jobVars, projectVars,
      modelVars, writerVars>>

(***************************************************************************)
(* Bounds of the model                                                     *)
(***************************************************************************)
MaxRows == 2      \* rows of the annotations table
MaxTime == 1      \* seconds the clock may advance
MaxFeatureRows == 3   \* rows of the features table
MaxLogs == 1      \* rows of the logs table
MaxTasks == 2     \* tasks ever submitted to the queue

(***************************************************************************)
(* Input sets                                                              *)
(***************************************************************************)
Null == "null"
content == <<"e1", "e2">>                 \* index of self.content, file order
Elements == {content[i] : i \in DOMAIN content}
Users == {"u1", "u2"}
\* the callers that may be inside push_tag at the same time
Writers == {"w1", "w2"}
NotPushing == [pc |-> "idle"]
SchemeNames == {"default"}
Labels == {"a", "b"}
Tags == Labels \cup {Null}
LabelLists == {<<"a", "b">>}
ConvertPairs == {<<"a", "b">>, <<"b", "a">>, <<"a", "a">>}

NoCall == [op |-> "none", args |-> <<>>, res |-> Null]

(***************************************************************************)
(* Helpers on sequences                                                    *)
(***************************************************************************)
SeqToSet(s) == {s[i] : i \in DOMAIN s}

Max(S) == CHOOSE x \in S : \A y \in S : y <= x
Min(S) == CHOOSE x \in S : \A y \in S : x <= y

IsPrefix(s, t) == Len(s) <= Len(t) /\ SubSeq(t, 1, Len(s)) = s

\* p occurs in s (Python's `p in s` on strings)
IsInfix(p, s) ==
    \E i \in 0..(Len(s) - Len(p)) : SubSeq(s, i + 1, i + Len(p)) = p

\* list.remove(x): drop the first occurrence
RECURSIVE ListRemove(_, _)
ListRemove(s, x) ==
    IF s = <<>> THEN <<>>
    ELSE IF Head(s) = x THEN Tail(s)
    ELSE <<Head(s)>> \o ListRemove(Tail(s), x)

(***************************************************************************)
(* Table schemes                                                           *)
(***************************************************************************)
\* Schemes.available: {name: json.loads(params)}; a later row wins
available(tbl) ==
    [n \in {tbl[i].name : i \in DOMAIN tbl} |->
        tbl[Max({i \in DOMAIN tbl : tbl[i].name = n})].params]

\* Schemes.exists
exists(tbl, name) == \E i \in DOMAIN tbl : tbl[i].name = name

\* Schemes.update_scheme: UPDATE schemes SET params = ? WHERE name = ?
update_scheme(tbl, scheme, labels) ==
    [i \in DOMAIN tbl |->
        IF tbl[i].name = scheme THEN [tbl[i] EXCEPT !.params = labels] ELSE tbl[i]]

\* Schemes.add_scheme: INSERT unless the name exists
add_scheme_rows(tbl, name, tags) ==
    IF exists(tbl, name) THEN tbl
    ELSE Append(tbl, [name |-> name, params |-> tags])

\* Schemes.delete_scheme: DELETE FROM schemes WHERE name = ?
delete_scheme_rows(tbl, name) == SelectSeq(tbl, LAMBDA r : r.name # name)

(***************************************************************************)
(* Table annotations                                                       *)
(***************************************************************************)
\* one INSERT INTO annotations (action, user, project, element_id, scheme,
\* tag); time defaults to CURRENT_TIMESTAMP
AnnotationRow(action, user, element_id, scheme, tag) ==
    [time |-> now, action |-> action, user |-> user,
     element_id |-> element_id, scheme |-> scheme, tag |-> tag]

\* push_tag without the test that the tag belongs to the scheme
push_tag_res_NoTagTest(tbl, tag, scheme) ==
    IF scheme \notin DOMAIN available(tbl) THEN "error" ELSE "success"

\* Schemes.push_tag: the two tests before the INSERT
push_tag_res(tbl, tag, scheme) ==
    LET a == available(tbl) IN
    IF scheme \notin DOMAIN a THEN "error"
    ELSE IF tag # Null /\ tag \notin SeqToSet(a[scheme]) THEN "error"
    ELSE "success"

\* Schemes.push_tag: the table after the call
push_tag_rows(rows, tbl, element_id, tag, scheme, user, action) ==
    IF push_tag_res(tbl, tag, scheme) = "success"
    THEN Append(rows, AnnotationRow(action, user, element_id, scheme, tag))
    ELSE rows

\* delete_tag that rewrites the history: DELETE of the element's rows
delete_tag_rows_Rewrite(rows, element_id, scheme, user) ==
    SelectSeq(rows, LAMBDA r : ~(r.element_id = element_id /\ r.scheme = scheme))

\* Schemes.delete_tag: a "delete" row, then an "add" row with a null tag
delete_tag_rows(rows, element_id, scheme, user) ==
    rows \o <<AnnotationRow("delete", user, element_id, scheme, Null),
              AnnotationRow("add", user, element_id, scheme, Null)>>

\* WHERE scheme = ? AND project = ? AND (action = ? OR ...)
Selected(rows, scheme, kind) ==
    {i \in DOMAIN rows : rows[i].scheme = scheme /\ rows[i].action \in kind}

\* GROUP BY element_id with MAX(time): the rows of the group that hold the
\* maximum.  SQLite takes the bare columns (tag, user) from one of them and
\* does not say which when several rows share the maximum.
GroupMax(rows, scheme, kind, e) ==
    LET g == {i \in Selected(rows, scheme, kind) : rows[i].element_id = e}
    IN {i \in g : \A j \in g : rows[j].time <= rows[i].time}

Grouped(rows, scheme, kind) ==
    {rows[i].element_id : i \in Selected(rows, scheme, kind)}

\* the result sets the query of get_scheme_data may return: for each element
\* of the scheme, the rowid the bare columns are taken from
QueryResults(rows, scheme, kind) ==
    {f \in [Grouped(rows, scheme, kind) -> DOMAIN rows] :
        \A e \in DOMAIN f : f[e] \in GroupMax(rows, scheme, kind, e)}

\* the data frame built from one result set: id -> labels
Frame(rows, f) == [e \in DOMAIN f |-> rows[f[e]].tag]

\* Schemes.get_scheme_data(scheme, complete=False, kind): the data frames it
\* may return ({} stands for the {"error": ...} dict of an unknown scheme)
get_scheme_data(rows, tbl, scheme, kind) ==
    IF scheme \notin DOMAIN available(tbl) THEN {}
    ELSE {Frame(rows, f) : f \in QueryResults(rows, scheme, kind)}

\* df[df["labels"] == label].index, in the order of the model's content
\* (a comparison with None selects nothing)
WithLabel(df, label) ==
    IF label = Null THEN {} ELSE {e \in DOMAIN df : df[e] = label}

\* for i in ids: push_tag(i, tag, scheme, user, "add")
RECURSIVE PushAll(_, _, _, _, _, _)
PushAll(rows, tbl, ids, tag, scheme, user) ==
    IF ids = {} THEN rows
    ELSE LET i == CHOOSE x \in ids : TRUE IN
         PushAll(push_tag_rows(rows, tbl, i, tag, scheme, user, "add"),
                 tbl, ids \ {i}, tag, scheme, user)

\* Schemes.delete_label: the annotations after the clearing pushes, given the
\* data frame get_scheme_data returned
delete_label_rows(rows, tbl, df, label, scheme, user) ==
    PushAll(rows, tbl, WithLabel(df, label), Null, scheme, user)

\* Schemes.convert_tags: the annotations after the recoding pushes
convert_tags_rows(rows, tbl, df, former_label, new_label, scheme, user) ==
    PushAll(rows, tbl, WithLabel(df, former_label), new_label, scheme, user)

\* Schemes.push_table: push_tag on each (id, label) of the table, in order,
\* stopping at the first error
RECURSIVE push_table_rows(_, _, _, _, _, _)
push_table_rows(rows, tbl, table, scheme, user, action) ==
    IF table = <<>> THEN [rows |-> rows, res |-> "success"]
    ELSE IF push_tag_res(tbl, Head(table)[2], scheme) = "error"
         THEN [rows |-> rows, res |-> "error"]
         ELSE push_table_rows(
                  push_tag_rows(rows, tbl, Head(table)[1], Head(table)[2],
                                scheme, user, action),
                  tbl, Tail(table), scheme, user, action)

(***************************************************************************)
(* Operations of class Schemes                                             *)
(***************************************************************************)
Call(op, args, res) == ret' = [op |-> op, args |-> args, res |-> res]

\* the clock moves on to the next second
Tick ==
    /\ now < MaxTime
    /\ now' = now + 1
    /\ UNCHANGED <<annotations, schemes, ret, exceptSchemes>>

push_tag(element_id, tag, scheme, user, action) ==
    /\ annotations' =
           push_tag_rows(annotations, schemes, element_id, tag, scheme, user, action)
    /\ Len(annotations') <= MaxRows
    /\ Call("push_tag",
            [element_id |-> element_id, tag |-> tag, scheme |-> scheme,
             user |-> user, action |-> action],
            push_tag_res(schemes, tag, scheme))
    /\ UNCHANGED <<schemes, now, exceptSchemes>>

delete_tag(element_id, scheme, user) ==
    /\ annotations' = delete_tag_rows(annotations, element_id, scheme, user)
    /\ Len(annotations') <= MaxRows
    /\ Call("delete_tag",
            [element_id |-> element_id, scheme |-> scheme, user |-> user],
            "success")
    /\ UNCHANGED <<schemes, now, exceptSchemes>>

delete_label(label, scheme, user) ==
    LET a == available(schemes)
        args == [label |-> label, scheme |-> scheme, user |-> user]
    IN
    IF scheme \notin DOMAIN a \/ label \notin SeqToSet(a[scheme])
    THEN /\ Call("delete_label", args, "error")
         /\ UNCHANGED <<annotations, schemes, now, exceptSchemes>>
    ELSE \E df \in get_scheme_data(annotations, schemes, scheme, {"add"}) :
         /\ annotations' =
                delete_label_rows(annotations, schemes, df, label, scheme, user)
         /\ Len(annotations') <= MaxRows
         /\ schemes' = update_scheme(schemes, scheme, ListRemove(a[scheme], label))
         /\ Call("delete_label", args, "success")
         /\ UNCHANGED <<now, exceptSchemes>>

convert_tags(former_label, new_label, scheme, user) ==
    LET args == [former_label |-> former_label, new_label |-> new_label,
                 scheme |-> scheme, user |-> user]
    IN
    IF scheme \notin DOMAIN available(schemes)
    THEN \* df is the error dict: df["labels"] raises KeyError
         /\ Call("convert_tags", args, "raise")
         /\ UNCHANGED <<annotations, schemes, now, exceptSchemes>>
    ELSE \E df \in get_scheme_data(annotations, schemes, scheme, {"add"}) :
         /\ annotations' =
                convert_tags_rows(annotations, schemes, df, former_label,
                                  new_label, scheme, user)
         /\ Len(annotations') <= MaxRows
         /\ Call("convert_tags", args, "success")
         /\ UNCHANGED <<schemes, now, exceptSchemes>>

push_table(table, scheme, user, action) ==
    LET r == push_table_rows(annotations, schemes, table, scheme, user, action) IN
    /\ annotations' = r.rows
    /\ Len(annotations') <= MaxRows
    /\ Call("push_table", [table |-> table, scheme |-> scheme, user |-> user], r.res)
    /\ UNCHANGED <<schemes, now, exceptSchemes>>

add_scheme(name, tags) ==
    /\ schemes' = add_scheme_rows(schemes, name, tags)
    /\ Call("add_scheme", [name |-> name, tags |-> tags],
            IF exists(schemes, name) THEN "error" ELSE "success")
    /\ UNCHANGED <<annotations, now, exceptSchemes>>

\* delete_scheme that takes the annotations of the scheme with it
delete_scheme_Cascade(name) ==
    /\ schemes' = delete_scheme_rows(schemes, name)
    /\ annotations' = SelectSeq(annotations, LAMBDA r : r.scheme # name)
    /\ Call("delete_scheme", [name |-> name], "success")
    /\ UNCHANGED <<now, exceptSchemes>>

delete_scheme(name) ==
    /\ schemes' = delete_scheme_rows(schemes, name)
    /\ Call("delete_scheme", [name |-> name], "success")
    /\ UNCHANGED <<annotations, now, exceptSchemes>>

add_label(label, scheme, user) ==
    LET a == available(schemes)
        args == [label |-> label, scheme |-> scheme, user |-> user]
    IN
    IF label = Null \/ scheme \notin DOMAIN a \/ label \in SeqToSet(a[scheme])
    THEN /\ Call("add_label", args, "error")
         /\ UNCHANGED <<annotations, schemes, now, exceptSchemes>>
    ELSE /\ schemes' = update_scheme(schemes, scheme, Append(a[scheme], label))
         /\ Call("add_label", args, "success")
         /\ UNCHANGED <<annotations, now, exceptSchemes>>

(***************************************************************************)
(* Element selection: Project.get_next                                     *)
(***************************************************************************)
\* index of self.test, the test partition
test == <<"t1">>
TestElements == {test[i] : i \in DOMAIN test}

\* the column text and the context columns of self.content, as words
Text == [e \in Elements |-> IF e = "e1" THEN <<"x", "y">> ELSE <<"y">>]
Context == [e \in Elements |-> IF e = "e1" THEN <<"z">> ELSE <<"y", "z">>]

\* Series.str.contains(pattern, regex=True, case=True, na=False) for a
\* pattern that is one literal word
Contains(words, pattern) == \E i \in DOMAIN words : words[i] = pattern

\* no quick model, no projection
NoModels == [k \in {} |-> <<>>]
NoProjections == [u \in {} |-> <<>>]

\* the test `kind == "test"` of get_scheme_data: it is evaluated after
\* `if isinstance(kind, str): kind = [kind]`, so kind is a list there and a
\* list never equals a str
kind_is_test(kind) == FALSE

\* DataFrame.join: the rows of `index`, with the labels of df where df has
\* the id and NaN elsewhere
join(index, df) == [e \in index |-> IF e \in DOMAIN df THEN df[e] ELSE Null]

\* Schemes.get_scheme_data(scheme, complete=True, kind): the data frames it
\* may return ({} stands for the {"error": ...} dict of an unknown scheme)
get_scheme_data_complete(rows, tbl, scheme, kind) ==
    {IF kind_is_test(kind) THEN join(TestElements, df) ELSE join(Elements, df) :
        df \in get_scheme_data(rows, tbl, scheme, kind)}

\* f after the lines `sample`: isnull / notnull / all
sample_mask(df, sample) ==
    IF sample = "untagged" THEN {e \in DOMAIN df : df[e] = Null}
    ELSE IF sample = "tagged" THEN {e \in DOMAIN df : df[e] # Null}
    ELSE DOMAIN df

\* f_regex: no condition for an empty filter; the context columns when the
\* filter starts with CONTEXT=, the text otherwise
NoFilter == [context |-> FALSE, pattern |-> ""]
regex_mask(df, filter) ==
    IF filter.pattern = "" THEN DOMAIN df
    ELSE IF filter.context
         THEN {e \in DOMAIN df : Contains(Context[e], filter.pattern)}
         ELSE {e \in DOMAIN df : Contains(Text[e], filter.pattern)}

\* f_frame: the elements inside the box when the user has a projection; an
\* exception (frame is None or too short) is caught and leaves f as it is
NoFrame == <<>>
frame_mask(df, proj, user, frame) ==
    IF user \notin DOMAIN proj THEN DOMAIN df
    ELSE IF "data" \notin DOMAIN proj[user] THEN DOMAIN df
    ELSE IF Len(frame) < 4 THEN DOMAIN df
    ELSE LET projection == proj[user].data IN
         {e \in DOMAIN df :
             /\ e \in DOMAIN projection
             /\ projection[e][1] > frame[1] /\ projection[e][1] < frame[2]
             /\ projection[e][2] > frame[3] /\ projection[e][2] < frame[4]}

\* the mask f at the test `sum(f) == 0`
mask(df, proj, req) ==
    sample_mask(df, req.sample) \cap regex_mask(df, req.filter)
        \cap frame_mask(df, proj, req.user, req.frame)

\* .drop(history, errors="ignore")
drop(ids, history) == ids \ SeqToSet(history)

\* .index[0] of a frame that keeps the order of self.content
first_index(ids) == content[CHOOSE i \in DOMAIN content :
                        /\ content[i] \in ids
                        /\ \A j \in DOMAIN content : content[j] \in ids => i <= j]

\* .sort_values(ascending=False).index[0] with the values of column col
\* of the table: reindex gives NaN to the ids the table does not hold, NaN
\* sorts last, and equal values come in any order
sort_first_Ascending(ids, table, col) ==
    LET known == ids \cap DOMAIN table IN
    IF known = {} THEN ids
    ELSE {e \in known : \A x \in known : table[e][col] <= table[x][col]}

sort_first(ids, table, col) ==
    LET known == ids \cap DOMAIN table IN
    IF known = {} THEN ids
    ELSE {e \in known : \A x \in known : table[x][col] <= table[e][col]}


\* what a call of get_next gave: res is "element", "error" or "raise", out
\* is the element id or the message, df the data frame the call read
Outcome(res, out, df) == [res |-> res, out |-> out, df |-> df]

\* the error dict of get_scheme_data: no data frame was read
NoFrameRead == [e \in {} |-> Null]

\* the columns of the table of probabilities
Columns(table) == UNION {DOMAIN table[e] : e \in DOMAIN table}

\* the ids the selection mode may bind to element_id, given the mask f;
\* a set of outcomes with res = "element" for an id, or the error / exception
\* that ends the call
select(df, f, req, sm) ==
    LET cands == drop(f, req.history)
        key == <<req.user, req.scheme>>
        ids(S) == {Outcome("element", e, df) : e \in S}
    IN
    IF req.selection = "deterministic"
    THEN IF cands = {} THEN {Outcome("raise", "IndexError", df)}
         ELSE ids({first_index(cands)})
    ELSE IF req.selection = "random"
    THEN IF cands = {} THEN {Outcome("raise", "ValueError", df)}
         ELSE ids(cands)
    ELSE IF req.selection = "maxprob"
    THEN IF key \notin DOMAIN sm
         THEN {Outcome("error", "Simplemodel doesn't exist", df)}
         ELSE IF req.tag = Null THEN {Outcome("error", "Select a tag", df)}
         ELSE IF req.tag \notin Columns(sm[key])
              THEN {Outcome("raise", "KeyError", df)}
         ELSE IF cands = {} THEN {Outcome("raise", "IndexError", df)}
         ELSE ids(sort_first(cands, sm[key], req.tag))
    ELSE IF req.selection = "active"
    THEN IF key \notin DOMAIN sm
         THEN {Outcome("error", "Simplemodel doesn't exist", df)}
         ELSE IF cands = {} THEN {Outcome("raise", "IndexError", df)}
         ELSE ids(sort_first(cands, sm[key], "entropy"))
    ELSE \* no branch binds element_id: its first use raises
         {Outcome("raise", "UnboundLocalError", df)}

\* the prediction of the element: sm.proba.loc[element_id, "prediction"]
\* raises when the table does not hold the id
predict(o, req, sm) ==
    LET key == <<req.user, req.scheme>> IN
    IF o.res = "element" /\ key \in DOMAIN sm /\ o.out \notin DOMAIN sm[key]
    THEN Outcome("raise", "KeyError", o.df)
    ELSE o

\* the branch selection == "test" of get_next
get_next_test(rows, tbl, req) ==
    LET views == get_scheme_data_complete(rows, tbl, req.scheme, {"test"}) IN
    IF views = {} THEN {Outcome("raise", "KeyError", NoFrameRead)}
    ELSE UNION {
        (LET f == {e \in DOMAIN df : df[e] = Null} IN
         IF f = {} THEN {Outcome("raise", "ValueError", df)}
         ELSE {Outcome("element", e, df) : e \in f}) : df \in views}

\* Project.get_next: the outcomes of one call
get_next_outcomes(rows, tbl, sm, proj, req) ==
    IF req.selection = "test" THEN get_next_test(rows, tbl, req)
    ELSE
    LET views == get_scheme_data_complete(rows, tbl, req.scheme, {"add"}) IN
    IF views = {} THEN {Outcome("raise", "KeyError", NoFrameRead)}
    ELSE UNION {
        (LET f == mask(df, proj, req) IN
         IF f = {} THEN {Outcome("error", "No element available", df)}
         ELSE {predict(o, req, sm) : o \in select(df, f, req, sm)}) : df \in views}

get_next(req) ==
    /\ \E o \in get_next_outcomes(annotations, schemes, simplemodels,
                                  projections, req) :
           ret' = [op |-> "get_next", args |-> req, res |-> o.res,
                   out |-> o.out, df |-> o.df]
    /\ UNCHANGED exceptRet

(***************************************************************************)
(* Feature catalog: class Features (features.py)                           *)
(* Names are words over characters, so that "f" is a prefix of "fb".       *)
(***************************************************************************)
\* self.n: the rows of the features file, train + valid + test (this
\* project has no valid partition)
n == Len(content) + Len(test)

Sep == <<"_", "_">>

\* f"{name}__{i}"
column_name(name, i) == name \o Sep \o i

\* i.split("__")[0]
RECURSIVE split_first(_)
split_first(s) ==
    IF Len(s) < 2 THEN s
    ELSE IF SubSeq(s, 1, 2) = Sep THEN <<>>
    ELSE <<Head(s)>> \o split_first(Tail(s))

\* Features.get_map()[0]: for each name before "__", the columns of the
\* file that re.match(name, column) accepts: the columns that START with it
get_map(file) ==
    LET named == {c \in SeqToSet(file.columns) :
                     ~IsInfix(Sep \o <<"i", "n", "d", "e", "x">>, c)
                     /\ c # <<"i", "d">>}
        var == {split_first(c) : c \in named}
    IN [i \in var |-> SelectSeq(file.columns, LAMBDA c : IsPrefix(i, c))]

\* Features.add without the test of the length
add_res_NoLengthTest(mp, name, new_content) ==
    IF name \in DOMAIN mp THEN "raise" ELSE "success"

\* Features.add: the two tests before anything is written
add_res(mp, name, new_content) ==
    IF name \in DOMAIN mp THEN "raise"
    ELSE IF new_content.len # n THEN "raise"
    ELSE "success"

\* new_content.columns = [f"{name}__{i}" for i in new_content.columns]
prefixed(name, new_content) ==
    [i \in DOMAIN new_content.columns |->
        column_name(name, new_content.columns[i])]

\* the index of a content: the callers compute it over the rows of the
\* corpus, so a content of n rows has the ids of the store, a content of the
\* length of the train set the ids of the train set, and a longer one the
\* ids of the store and one more
RowIds(new_content) ==
    IF new_content.len = n THEN Elements \cup TestElements
    ELSE IF new_content.len < n THEN Elements
    ELSE Elements \cup TestElements \cup {"x1"}

\* the file after pd.concat([content[other columns], new_content], axis=1):
\* the columns are put side by side and the rows are aligned on the index,
\* a row for every id of either frame
add_file(file, name, new_content) ==
    LET cols == prefixed(name, new_content)
        ids == file.index \cup RowIds(new_content)
    IN
    [file EXCEPT !.columns = SelectSeq(@, LAMBDA c : c \notin SeqToSet(cols)) \o cols,
                 !.index = ids,
                 !.num_rows = Cardinality(ids)]

\* DatabaseManager.add_feature: one row of table features
add_feature(db, kind, name, parameters, user, data) ==
    Append(db, [time |-> now, kind |-> kind, name |-> name,
                parameters |-> parameters, user |-> user, data |-> data])

\* DatabaseManager.delete_feature
delete_feature(db, name) == SelectSeq(db, LAMBDA r : r.name # name)

\* DatabaseManager.get_feature(...) is not None
get_feature(db, name) == \E i \in DOMAIN db : db[i].name = name

add(name, kind, username, parameters, new_content) ==
    LET args == [name |-> name, kind |-> kind, username |-> username,
                 new_content |-> new_content]
    IN
    IF add_res(map, name, new_content) = "raise"
    THEN /\ Call("add", args, "raise")
         /\ UNCHANGED exceptRet
    ELSE /\ features_file' = add_file(features_file, name, new_content)
         /\ features_db' = add_feature(features_db, kind, name, parameters,
                                       username, prefixed(name, new_content))
         /\ Len(features_db') <= MaxFeatureRows
         /\ map' = get_map(features_file')
         /\ Call("add", args, "success")
         /\ UNCHANGED exceptFeatures

delete(name) ==
    IF name \notin DOMAIN map \/ ~get_feature(features_db, name)
    THEN /\ Call("delete", [name |-> name], "raise")
         /\ UNCHANGED exceptRet
    ELSE /\ features_file' =
                [features_file EXCEPT !.columns =
                    SelectSeq(@, LAMBDA c : c \notin SeqToSet(map[name]))]
         /\ features_db' = delete_feature(features_db, name)
         /\ map' = get_map(features_file')
         /\ Call("delete", [name |-> name], "success")
         /\ UNCHANGED exceptFeatures

(***************************************************************************)
(* Specification of the schemes and the annotation history                 *)
(***************************************************************************)
\* a project created with a label column holding the values a and b: the
\* scheme "default" carries them, and nothing is annotated yet
InitSchemes ==
    /\ annotations = <<>>
    /\ schemes = <<[name |-> "default", params |-> <<"a", "b">>]>>
    /\ now = 0

\* the features file as create_features_file leaves it
InitFeatures ==
    /\ features_file = [num_rows |-> n, columns |-> <<>>,
                        index |-> Elements \cup TestElements]
    /\ features_db = <<>>
    /\ map = get_map(features_file)

\* Queue.__init__ (the stack is empty), Features.training = {} and an empty
\* list of jobs
NoStateCall == [pos |-> 0, r |-> <<>>]
InitQueue ==
    /\ current = <<>>
    /\ futures = <<>>
    /\ reported = <<>>
    /\ state_call = NoStateCall
    /\ training = <<>>
    /\ computing = <<>>

\* Server.__init__: no project in the database, none on the disk, none loaded
NoDirs == [s \in {} |-> Null]
NoRows == [projects |-> <<>>, schemes |-> <<>>, annotations |-> <<>>,
           auth |-> <<>>, logs |-> <<>>]
InitProjects ==
    /\ dirs = NoDirs
    /\ database = NoRows
    /\ projects = {}

\* no row in the table models, no directory in quickmodels/
InitModels ==
    /\ models = <<>>
    /\ model_paths = {}

\* no call of push_tag is in progress
InitWriters == pushing = [w \in Writers |-> NotPushing]

Init ==
    /\ InitSchemes
    /\ simplemodels = NoModels
    /\ projections = NoProjections
    /\ InitFeatures
    /\ InitQueue
    /\ InitProjects
    /\ InitModels
    /\ InitWriters
    /\ ret = NoCall

Tables == {<<<<"e1", "a">>, <<"e2", "b">>>>}

Next ==
    \/ Tick
    \/ \E e \in Elements, t \in Tags, s \in SchemeNames :
           push_tag(e, t, s, "u1", "add")
    \/ \E e \in Elements, s \in SchemeNames : delete_tag(e, s, "u1")
    \/ \E l \in Labels, s \in SchemeNames : delete_label(l, s, "u2")
    \/ \E p \in ConvertPairs, s \in SchemeNames :
           convert_tags(p[1], p[2], s, "u2")
    \/ \E tb \in Tables, s \in SchemeNames : push_table(tb, s, "u1", "add")
    \/ \E n0 \in SchemeNames, tg \in LabelLists : add_scheme(n0, tg)
    \/ \E n0 \in SchemeNames : delete_scheme(n0)
    \/ \E l \in Labels, s \in SchemeNames : add_label(l, s, "u1")

Spec == Init /\ [][Next]_vars

(***************************************************************************)
(* Specification of the element selection                                  *)
(***************************************************************************)
\* tables of probabilities of a quick model with the labels a and b, in
\* percent: one over all the elements, one without e1 (an element with a
\* missing feature gets no row)
ProbaTables == {
    [e \in {"e1", "e2"} |->
        IF e = "e1"
        THEN [a |-> 90, b |-> 10, entropy |-> 3, prediction |-> "a"]
        ELSE [a |-> 50, b |-> 50, entropy |-> 7, prediction |-> "a"]],
    [e \in {"e2"} |->
        [a |-> 60, b |-> 40, entropy |-> 6, prediction |-> "a"]]}

\* a projection of the elements on the plane
ProjectionData == [e \in Elements |-> IF e = "e1" THEN <<1, 1>> ELSE <<3, 1>>]

Box == <<0, 2, 0, 2>>

Request(selection, sample, tag, history, frame, filter) ==
    [scheme |-> "default", selection |-> selection, sample |-> sample,
     user |-> "u1", tag |-> tag, history |-> history, frame |-> frame,
     filter |-> filter]

Selections == {"deterministic", "random", "maxprob", "active"}
Samples == {"untagged", "tagged", "all"}
Histories == {<<>>, <<"e1">>, <<"e1", "e2">>}
Filters == {[context |-> FALSE, pattern |-> "x"],
            [context |-> TRUE, pattern |-> "y"]}

\* the calls of get_next of the model
Requests ==
    {Request(m, sm, IF m = "maxprob" THEN "a" ELSE Null, h, NoFrame, NoFilter) :
        m \in Selections, sm \in Samples, h \in Histories}
    \cup {Request(m, "untagged", IF m = "maxprob" THEN "a" ELSE Null, h,
                  Box, NoFilter) :
             m \in Selections, h \in {<<>>, <<"e1">>}}
    \cup {Request(m, "untagged", IF m = "maxprob" THEN "a" ELSE Null, h,
                  NoFrame, fl) :
             m \in Selections, h \in {<<>>, <<"e1">>}, fl \in Filters}
    \cup {Request("maxprob", "all", Null, <<>>, NoFrame, NoFilter),
          Request("maxprob", "all", "c", <<>>, NoFrame, NoFilter),
          Request("test", "untagged", Null, <<>>, NoFrame, NoFilter),
          Request("test", "untagged", Null, <<"e1", "e2", "t1">>, NoFrame, NoFilter),
          Request("nearest", "untagged", Null, <<>>, NoFrame, NoFilter),
          [Request("random", "all", Null, <<>>, NoFrame, NoFilter)
              EXCEPT !.scheme = "other"]}

\* a loaded project: a quick model may have been trained for (u1, default)
\* and a projection computed for u1
InitNext ==
    /\ InitSchemes
    /\ simplemodels \in {NoModels} \cup
           {[k \in {<<"u1", "default">>} |-> t] : t \in ProbaTables}
    /\ projections \in {NoProjections,
                        [u \in {"u1"} |-> [data |-> ProjectionData, id |-> 1]]}
    /\ InitFeatures
    /\ InitQueue
    /\ InitProjects
    /\ InitModels
    /\ InitWriters
    /\ ret = NoCall

NextSelection ==
    \/ Tick
    \/ \E e \in Elements, t \in {Null, "a"} : push_tag(e, t, "default", "u1", "add")
    \/ \E e \in TestElements : push_tag(e, "a", "default", "u1", "test")
    \/ \E req \in Requests : get_next(req)

SpecNext == InitNext /\ [][NextSelection]_vars

(***************************************************************************)
(* Specification of the feature catalog                                    *)
(***************************************************************************)
FeatureNames == {<<"f">>, <<"f", "b">>}
Contents == {[len |-> k, columns |-> cs] :
                k \in {Len(content), n, n + 1},
                cs \in {<< <<"0">> >>, << <<"0">>, <<"1">> >>}}

NextFeatures ==
    \/ \E nm \in FeatureNames, c \in Contents : add(nm, "regex", "u1", <<>>, c)
    \/ \E nm \in FeatureNames : delete(nm)

SpecFeatures == Init /\ [][NextFeatures]_vars

(***************************************************************************)
(* Properties of the annotation history                                    *)
(***************************************************************************)
\* the step is a call of `op` (Tick alone moves the clock and keeps ret)
IsCall(op) == ret'.op = op /\ now' = now

\* rowids of the train annotations ("add") of element e in scheme s
AddRows(rows, s, e) == Selected(rows, s, {"add"}) \cap
                       {i \in DOMAIN rows : rows[i].element_id = e}

\* the record appended last for e in s
LastRow(rows, s, e) == rows[Max(AddRows(rows, s, e))]

\* the current label of e in s: the annotation of the record appended last
\* (null when e was never annotated)
Current(rows, s, e) ==
    IF AddRows(rows, s, e) = {} THEN Null ELSE LastRow(rows, s, e).tag

\* C1: whatever was pushed, deleted or converted, the label get_scheme_data
\* reports for an element is the annotation of the record that holds the
\* maximum timestamp of the element, and that record is the one appended last
C1_ReportsLastAppended ==
    \A s \in DOMAIN available(schemes) :
        \A f \in QueryResults(annotations, s, {"add"}) :
            \A e \in DOMAIN f :
                /\ f[e] \in GroupMax(annotations, s, {"add"}, e)
                /\ Frame(annotations, f)[e] = LastRow(annotations, s, e).tag

\* C2: the history is append-only: every step keeps the rows that exist, in
\* place and unchanged, and delete_tag records the removal as a new row with
\* a null tag
C2_AppendOnly ==
    [][/\ IsPrefix(annotations, annotations')
       /\ IsCall("delete_tag") =>
              /\ Len(annotations') = Len(annotations) + 2
              /\ annotations'[Len(annotations')] =
                     AnnotationRow("add", ret'.args.user, ret'.args.element_id,
                                   ret'.args.scheme, Null)]_vars

C2_Witness ==
    /\ ret.op = "delete_label" /\ ret.res = "success"
    /\ Len(annotations) = 2
    /\ annotations[1].tag = ret.args.label
    /\ annotations[2].tag = Null
    /\ annotations[2].element_id = annotations[1].element_id

\* C3: push_tag appends exactly one record when the scheme exists and the tag
\* is null or a label of the scheme; otherwise it returns an error and the
\* table is unchanged
C3_PushTag ==
    [][IsCall("push_tag") =>
        LET p == ret'.args
            a == available(schemes)
        IN IF p.scheme \in DOMAIN a
              /\ (p.tag = Null \/ p.tag \in SeqToSet(a[p.scheme]))
           THEN /\ ret'.res = "success"
                /\ annotations' =
                       Append(annotations,
                              AnnotationRow(p.action, p.user, p.element_id,
                                            p.scheme, p.tag))
           ELSE /\ ret'.res = "error"
                /\ annotations' = annotations]_vars

C3_Witness ==
    /\ ret.op = "push_tag" /\ ret.res = "error"
    /\ exists(schemes, ret.args.scheme)
    /\ ret.args.tag \notin SeqToSet(available(schemes)[ret.args.scheme])
    /\ Len(annotations) = 1
    /\ annotations[1].tag # Null

\* C4: after a successful delete_label(label, scheme, user) every element
\* whose current label was `label` has a null current label, recorded under
\* the acting user, and `label` is no longer a label of the scheme
C4_DeleteLabelClears ==
    [][(IsCall("delete_label") /\ ret'.res = "success") =>
        LET p == ret'.args IN
        /\ p.label \notin SeqToSet(available(schemes')[p.scheme])
        /\ \A e \in Elements :
               Current(annotations, p.scheme, e) = p.label =>
                   /\ Current(annotations', p.scheme, e) = Null
                   /\ LastRow(annotations', p.scheme, e).user = p.user]_vars

\* C5: convert_tags(A, B) applied twice in a row leaves the current labels as
\* they were after the first application, and one application with B in the
\* scheme and A # B leaves no element with the current label A
C5_ConvertIdempotent ==
    [][(IsCall("convert_tags") /\ ret'.res = "success") =>
        LET p == ret'.args IN
        /\ (ret = ret') =>
               \A e \in Elements :
                   Current(annotations', p.scheme, e) =
                       Current(annotations, p.scheme, e)
        /\ (p.new_label \in SeqToSet(available(schemes)[p.scheme])
            /\ p.new_label # p.former_label) =>
               \A e \in Elements :
                   Current(annotations', p.scheme, e) # p.former_label]_vars

(***************************************************************************)
(* Properties of the element selection                                     *)
(***************************************************************************)
\* the current label of e in s among the records of one kind ("add" for the
\* train partition, "test" for the test partition)
CurrentOf(rows, s, kind, e) ==
    LET g == {i \in Selected(rows, s, {kind}) : rows[i].element_id = e} IN
    IF g = {} THEN Null ELSE rows[Max(g)].tag

\* e passes the regex filter, the frame and the history exclusion of req
PassesFilters(req, proj, e) ==
    /\ req.filter.pattern # "" =>
           Contains(IF req.filter.context THEN Context[e] ELSE Text[e],
                    req.filter.pattern)
    /\ (req.user \in DOMAIN proj /\ "data" \in DOMAIN proj[req.user]
        /\ Len(req.frame) = 4) =>
           /\ e \in DOMAIN proj[req.user].data
           /\ req.frame[1] < proj[req.user].data[e][1]
           /\ proj[req.user].data[e][1] < req.frame[2]
           /\ req.frame[3] < proj[req.user].data[e][2]
           /\ proj[req.user].data[e][2] < req.frame[4]
    /\ \A i \in DOMAIN req.history : req.history[i] # e

\* e passes the sample filter of req, given its label
PassesSample(req, label) ==
    /\ req.sample = "untagged" => label = Null
    /\ req.sample = "tagged" => label # Null

\* the candidates of a call in the train partition, on the labels df
Candidates(req, proj, df) ==
    {e \in Elements : PassesSample(req, df[e]) /\ PassesFilters(req, proj, e)}

\* C6: get_next with sample = "untagged" never returns an element whose
\* latest annotation in the scheme is not null, in the modes deterministic,
\* random, maxprob and active, whatever the filter, the frame and the history
C6_UntaggedSound ==
    [][(/\ IsCall("get_next")
        /\ ret'.args.sample = "untagged"
        /\ ret'.args.selection \in Selections
        /\ ret'.res = "element") =>
           Current(annotations, ret'.args.scheme, ret'.out) = Null]_vars

C8_NoElementAvailable ==
    [][(/\ IsCall("get_next")
        /\ ret'.args.scheme \in DOMAIN available(schemes)
        /\ ret'.args.selection \in Selections \cup {"test"}
        /\ ret'.args.selection \in {"maxprob", "active"} =>
               <<ret'.args.user, ret'.args.scheme>> \in DOMAIN simplemodels
        /\ ret'.args.selection = "maxprob" => ret'.args.tag = "a"
        /\ IF ret'.args.selection = "test"
           THEN \A e \in TestElements :
                    CurrentOf(annotations, ret'.args.scheme, "test", e) # Null
           ELSE Candidates(ret'.args, projections, ret'.df) = {}) =>
           (ret'.res = "error" /\ ret'.out = "No element available")]_vars

\* C9: get_next in mode test returns an element of the test partition whose
\* latest annotation in the scheme is null, never an element of the train
\* partition
C9_TestPartition ==
    [][(/\ IsCall("get_next")
        /\ ret'.args.selection = "test"
        /\ ret'.res = "element") =>
           /\ ret'.out \in TestElements
           /\ ret'.out \notin Elements
           /\ CurrentOf(annotations, ret'.args.scheme, "test", ret'.out) = Null]_vars

(***************************************************************************)
(* Properties of the feature catalog                                       *)
(***************************************************************************)
\* C10 as stated: Features.add succeeds if and only if the content has as
\* many rows as the features store; on a mismatch it raises and the file,
\* the metadata table and the map are unchanged
C10_AddIffLength ==
    [][IsCall("add") =>
        /\ (ret'.res = "success") <=> (ret'.args.new_content.len = n)
        /\ ret'.args.new_content.len # n =>
               (ret'.res = "raise" /\ UNCHANGED featureVars)]_vars

\* C10 as the code has it: Features.add succeeds if and only if the content
\* has as many rows as the features store and the name is not in the map;
\* on a length mismatch it raises and the file, the metadata table and the
\* map are unchanged
C10_AddIffLengthAndNewName ==
    [][IsCall("add") =>
        /\ (ret'.res = "success") <=>
               (ret'.args.new_content.len = n /\ ret'.args.name \notin DOMAIN map)
        /\ ret'.args.new_content.len # n =>
               (ret'.res = "raise" /\ UNCHANGED featureVars)]_vars

C10_Witness ==
    /\ ret.op = "add" /\ ret.res = "raise"
    /\ ret.args.new_content.len # n
    /\ ret.args.name \notin DOMAIN map
    /\ DOMAIN map # {}
    /\ Len(features_db) > 0

\* the names of the metadata rows, one per row
DbNames(db) == [i \in DOMAIN db |-> db[i].name]

\* no two rows of the metadata table carry the same feature name
UniqueNames(db) ==
    \A i, j \in DOMAIN db : db[i].name = db[j].name => i = j

\* C11, first part: Features.add with a name that is in the feature map is
\* rejected and leaves the features file, the metadata rows and the map as
\* they were
C11_DuplicateRejected ==
    [][(IsCall("add") /\ ret'.args.name \in DOMAIN map) =>
           (ret'.res = "raise" /\ UNCHANGED featureVars)]_vars

\* C11: a duplicate name is rejected with nothing changed, and consequently
\* the feature names stay unique after any sequence of add and delete: no
\* two metadata rows and no two map entries describe the same feature
C11_NamesUnique ==
    /\ C11_DuplicateRejected
    /\ [](UniqueNames(features_db)
          /\ \A nm \in DOMAIN map : get_feature(features_db, nm))

(***************************************************************************)
(* The job queue: class Queue (server.py) and the executor behind it       *)
(* A future is pending, running or finished; its result is what the task   *)
(* returned: {"success": df} ("success", or "short" for a df with the rows *)
(* of the train partition only), {"error": ...} ("error"), or the          *)
(* exception it raised ("exception").  The unique id is the index of the   *)
(* future: uuid4 never gives an id twice.                                  *)
(***************************************************************************)
\* Queue(nb_workers): ProcessPoolExecutor(max_workers=nb_workers) marks as
\* running the futures of its call queue, which holds one call more than
\* there are workers
nb_workers == 1
RunningSlots == nb_workers + 1

Results == {"success", "short", "error", "exception"}

Future(kind) ==
    [state |-> "pending", result |-> "none", event |-> FALSE, kind |-> kind]

\* future.running(), future.done()
running(f) == f.state = "running"
done(f) == f.state = "finished"

\* no call of Queue.state is in progress: the server runs one handler at a
\* time
Idle == state_call.pos = 0

\* an event of the executor or a call, as the last thing that happened
Event(op, id) == ret' = [op |-> op, args |-> [unique_id |-> id], res |-> Null]

\* the executor moves the oldest pending future to its call queue
executor_start ==
    /\ \E id \in DOMAIN futures :
        /\ futures[id].state = "pending"
        /\ \A j \in DOMAIN futures : futures[j].state = "pending" => id <= j
        /\ Cardinality({j \in DOMAIN futures : running(futures[j])}) < RunningSlots
        /\ futures' = [futures EXCEPT ![id].state = "running"]
        /\ Event("executor_start", id)
    /\ UNCHANGED <<current, reported, state_call, jobVars, schemeVars, modelVars, writerVars, projectVars,
                   selectionVars, featureVars>>

\* a worker ends a task (the task of compute_fasttext.py never reads the
\* event it was given, so it ends the same way whether killed or not)
worker_finish(id, result) ==
    /\ id \in DOMAIN futures
    /\ running(futures[id])
    /\ futures' = [futures EXCEPT ![id].state = "finished", ![id].result = result]
    /\ Event("worker_finish", id)
    /\ UNCHANGED <<current, reported, state_call, jobVars, schemeVars, modelVars, writerVars, projectVars,
                   selectionVars, featureVars>>

\* Queue.add: a new future and its event, on top of the stack
Queue_add(fs, kind) == Append(fs, Future(kind))

\* Queue.delete(id): del self.current[id]
Queue_delete(cur, id) == SelectSeq(cur, LAMBDA i : i # id)

\* Queue.kill
Queue_kill(unique_id) ==
    /\ Idle
    /\ IF unique_id \notin SeqToSet(current)
       THEN /\ Call("kill", [unique_id |-> unique_id], "error")
            /\ UNCHANGED <<queueVars>>
       ELSE /\ futures' = [futures EXCEPT ![unique_id].event = TRUE]
            /\ current' = Queue_delete(current, unique_id)
            /\ Call("kill", [unique_id |-> unique_id], "success")
            /\ UNCHANGED <<reported, state_call>>
    /\ UNCHANGED <<jobVars, schemeVars, modelVars, writerVars, projectVars, selectionVars, featureVars>>

\* one entry of the dict Queue.state returns: "running" for a running
\* future, "done" otherwise, with the exception of the future ("failed" is
\* "done" with an exception)
\* {"state": info, "exception": exception}
StateOf(f) ==
    IF running(f) THEN [state |-> "running", exception |-> Null]
    ELSE [state |-> "done",
          exception |-> IF f.result = "exception" THEN "exception" ELSE Null]

\* future.exception() that would return at once
exception_returns_NoWait(f) == TRUE

\* future.exception() with no timeout returns when the future is finished:
\* the call waits on a future that is not
exception_returns(f) == done(f)

\* Queue.state, entering the loop over the stack
Queue_state_begin ==
    /\ Idle
    /\ state_call' = [pos |-> 1, r |-> <<>>]
    /\ Event("state_begin", 0)
    /\ UNCHANGED <<current, futures, reported, jobVars, schemeVars, modelVars, writerVars, projectVars,
                   selectionVars, featureVars>>

\* Queue.state, one turn of the loop
Queue_state_loop ==
    /\ state_call.pos \in DOMAIN current
    /\ LET id == current[state_call.pos]
           f == futures[id]
       IN /\ running(f) \/ exception_returns(f)
          /\ state_call' = [pos |-> state_call.pos + 1,
                            r |-> Append(state_call.r,
                                         [id |-> id, state |-> StateOf(f).state,
                                          exception |-> StateOf(f).exception])]
          /\ Event("state_loop", id)
    /\ UNCHANGED <<current, futures, reported, jobVars, schemeVars, modelVars, writerVars, projectVars,
                   selectionVars, featureVars>>

\* Queue.state returns r
Queue_state ==
    /\ state_call.pos = Len(current) + 1
    /\ LET r == state_call.r
           ids == {r[i].id : i \in DOMAIN r}
       IN /\ reported' =
                 [id \in DOMAIN reported \cup ids |->
                     IF id \in ids
                     THEN (CHOOSE x \in SeqToSet(r) : x.id = id).state
                     ELSE reported[id]]
          /\ ret' = [op |-> "state", args |-> <<>>, res |-> "success", r |-> r]
    /\ state_call' = NoStateCall
    /\ UNCHANGED <<current, futures, jobVars, schemeVars, modelVars, writerVars, projectVars, selectionVars,
                   featureVars>>

(***************************************************************************)
(* The jobs of class Features (server.py): training, projections and the   *)
(* reaper update_processes                                                 *)
(***************************************************************************)
\* the data frame a feature task returned
DfOf(result) ==
    [len |-> IF result = "short" THEN Len(content) ELSE n,
     columns |-> << <<"0">> >>]

\* a dict kept as the sequence of its (name, id) items, in insertion order
Lookup(d, name) == (CHOOSE x \in SeqToSet(d) : x.name = name).id
Keys(d) == [i \in DOMAIN d |-> d[i].name]
DictSet(d, name, id) ==
    IF \E i \in DOMAIN d : d[i].name = name
    THEN [i \in DOMAIN d |-> IF d[i].name = name THEN [name |-> name, id |-> id]
                             ELSE d[i]]
    ELSE Append(d, [name |-> name, id |-> id])
DictDel(d, name) == SelectSeq(d, LAMBDA x : x.name # name)

\* Features.add of server.py: the length is tested first, then the name;
\* the map gets the new columns and the file is saved
Features_add(file, mp, name, df) ==
    IF df.len # file.num_rows THEN [res |-> "raise", file |-> file, map |-> mp]
    ELSE IF name \in DOMAIN mp THEN [res |-> "error", file |-> file, map |-> mp]
    ELSE [res |-> "success",
          file |-> [file EXCEPT !.columns = @ \o prefixed(name, df)],
          map |-> [k \in DOMAIN mp \cup {name} |->
                      IF k = name THEN prefixed(name, df) ELSE mp[k]]]

\* update_processes, the loop over a copy of self.training; st.res becomes
\* "raise" when future.result() or self.add raises, which ends the call
RECURSIVE reap_features(_, _, _)
reap_features(names, fs, st) ==
    IF names = <<>> THEN st
    ELSE
    LET name == Head(names)
        unique_id == Lookup(st.training, name)
    IN
    IF unique_id \notin SeqToSet(st.current)
    THEN reap_features(Tail(names), fs,
                       [st EXCEPT !.training = DictDel(@, name)])
    ELSE IF ~done(fs[unique_id]) THEN reap_features(Tail(names), fs, st)
    ELSE IF fs[unique_id].result = "exception" THEN [st EXCEPT !.res = "raise"]
    ELSE IF fs[unique_id].result = "error" THEN reap_features(Tail(names), fs, st)
    ELSE
    LET a == Features_add(st.file, st.map, name, DfOf(fs[unique_id].result)) IN
    IF a.res = "raise" THEN [st EXCEPT !.res = "raise"]
    ELSE reap_features(Tail(names), fs,
             [st EXCEPT !.file = a.file, !.map = a.map,
                        !.current = Queue_delete(@, unique_id),
                        !.training = DictDel(@, name)])

\* update_processes, the loop over the users whose projection has the key
\* "queue"
ProjectionUsers == <<"u1">>
RECURSIVE reap_projections(_, _, _)
reap_projections(users, fs, st) ==
    IF users = <<>> THEN st
    ELSE
    LET u == Head(users) IN
    IF u \notin DOMAIN st.projections \/ "queue" \notin DOMAIN st.projections[u]
    THEN reap_projections(Tail(users), fs, st)
    ELSE
    LET unique_id == st.projections[u].queue IN
    IF unique_id \notin SeqToSet(st.current)
    THEN [st EXCEPT !.res = "raise"]   \* self.queue.current[unique_id]: KeyError
    ELSE IF ~done(fs[unique_id]) THEN reap_projections(Tail(users), fs, st)
    ELSE IF fs[unique_id].result = "exception" THEN [st EXCEPT !.res = "raise"]
    ELSE reap_projections(Tail(users), fs,
             [st EXCEPT !.projections =
                            [v \in DOMAIN @ |->
                                IF v = u
                                THEN [data |-> IF fs[unique_id].result = "success"
                                               THEN ProjectionData
                                               ELSE NoProjections,
                                      id |-> unique_id]
                                ELSE @[v]],
                        !.current = Queue_delete(@, unique_id)])

\* Features.update_processes
update_processes ==
    /\ Idle
    /\ LET st0 == [current |-> current, training |-> training,
                   file |-> features_file, map |-> map,
                   projections |-> projections, res |-> "success"]
           st1 == reap_features(Keys(training), futures, st0)
           st2 == IF st1.res = "raise" THEN st1
                  ELSE reap_projections(ProjectionUsers, futures, st1)
       IN /\ current' = st2.current
          /\ training' = st2.training
          /\ features_file' = st2.file
          /\ map' = st2.map
          /\ projections' = st2.projections
          /\ Call("update_processes", <<>>, st2.res)
    /\ UNCHANGED <<futures, reported, state_call, computing, features_db,
                   simplemodels, schemeVars, modelVars, writerVars, projectVars>>

\* the route that starts a feature computation:
\* features.training[name] = queue.add("feature", func, args)
submit_feature(name) ==
    /\ Idle
    /\ Len(futures) < MaxTasks
    /\ futures' = Queue_add(futures, "feature")
    /\ current' = Append(current, Len(futures'))
    /\ training' = DictSet(training, name, Len(futures'))
    /\ Call("submit_feature", [name |-> name, unique_id |-> Len(futures')],
            "success")
    /\ UNCHANGED <<reported, state_call, computing, schemeVars, modelVars, writerVars, projectVars, selectionVars,
                   featureVars>>

\* the route that starts a projection:
\* features.projections[user] = {..., "queue": queue.add("projection", ...)}
submit_projection(user) ==
    /\ Idle
    /\ Len(futures) < MaxTasks
    /\ futures' = Queue_add(futures, "projection")
    /\ current' = Append(current, Len(futures'))
    /\ projections' =
           [u \in DOMAIN projections \cup {user} |->
               IF u = user THEN [queue |-> Len(futures')] ELSE projections[u]]
    /\ Call("submit_projection", [user |-> user, unique_id |-> Len(futures')],
            "success")
    /\ UNCHANGED <<reported, state_call, jobVars, schemeVars, modelVars, writerVars, projectVars, simplemodels,
                   featureVars>>

NextQueue ==
    \/ executor_start
    \/ \E id \in 1..MaxTasks, result \in Results : worker_finish(id, result)
    \/ \E nm \in FeatureNames : submit_feature(nm)
    \/ \E u \in {"u1"} : submit_projection(u)
    \/ \E id \in 1..MaxTasks : Queue_kill(id)
    \/ Queue_state_begin
    \/ Queue_state_loop
    \/ Queue_state
    \/ update_processes

SpecQueue == Init /\ [][NextQueue]_vars

(***************************************************************************)
(* Features.compute (features.py) and the list of jobs being computed      *)
(***************************************************************************)
\* [e for e in self.computing if e.user == user], without the test
current_user_processes_Nobody(comp, user) == <<>>

\* [e for e in self.computing if e.user == user]
current_user_processes(comp, user) == SelectSeq(comp, LAMBDA e : e.user = user)

\* self.exists(name): name in self.map
\* exists that never finds the name
Features_exists_Never(mp, name) == FALSE

\* Features.exists
Features_exists(mp, name) == name \in DOMAIN mp

Kinds == {"sbert", "fasttext", "dfm", "regex", "dataset"}
Generic == <<"generic">>
DefaultSbert == <<"m", "0">>        \* self.options["sbert"]["models"][0]

\* model.replace("/", "_")
replace(model) == [i \in DOMAIN model |-> IF model[i] = "/" THEN "_" ELSE model[i]]

\* f"regex_[{parameters['value']}]_by_{username}"
regex_name(parameters, username) ==
    <<"regex_[">> \o parameters.value \o <<"]_by_", username>>

\* f"dataset_{parameters['dataset_col']}_{parameters['dataset_type']}".lower()
dataset_name(parameters) ==
    <<"dataset_", parameters.dataset_col, "_", parameters.dataset_type>>

\* the model of an sbert feature
sbert_model(parameters) ==
    IF "model" \notin DOMAIN parameters \/ parameters.model = Generic
    THEN DefaultSbert ELSE parameters.model

\* f"sbert_{model.replace('/', '_')}"
sbert_name(parameters) == <<"sbert_">> \o replace(sbert_model(parameters))

\* the columns of the raw dataset and those of them with a null value
RawColumns == {"c", "cn"}
NullColumns == {"cn"}

\* get_column_raw(col): the column restricted to the index of the train set
get_column_raw(col) == [len |-> Len(content), columns |-> << <<"0">> >>]

\* what compute does up to the point where it changes the state: it raises,
\* adds a feature in the same process or submits a task to the queue
compute_plan(mp, comp, kind, parameters, username) ==
    LET Raise == [res |-> "raise", name |-> <<>>, content |-> NoFrame]
        series == [len |-> n, columns |-> << <<"0">> >>]
    IN
    IF Len(current_user_processes(comp, username)) > 0 THEN Raise
    ELSE IF kind \notin Kinds THEN Raise
    ELSE IF kind = "regex" THEN
        IF "value" \notin DOMAIN parameters THEN Raise
        ELSE IF Features_exists(mp, regex_name(parameters, username)) THEN Raise
        ELSE [res |-> "add", name |-> regex_name(parameters, username),
              content |-> series]
    ELSE IF kind = "dataset" THEN
        IF parameters.dataset_col \notin RawColumns THEN Raise
        ELSE IF parameters.dataset_col \in NullColumns THEN Raise
        ELSE IF Features_exists(mp, dataset_name(parameters)) THEN Raise
        ELSE [res |-> "add", name |-> dataset_name(parameters),
              content |-> get_column_raw(parameters.dataset_col)]
    ELSE IF kind = "sbert" THEN
        IF Features_exists(mp, sbert_name(parameters)) THEN Raise
        ELSE [res |-> "submit", name |-> sbert_name(parameters),
              content |-> NoFrame]
    ELSE IF kind = "fasttext" THEN
        \* ComputeFasttext(..., path_process=...) : its __init__ has no such
        \* argument, the call raises TypeError before add_task
        Raise
    ELSE
        IF Features_exists(mp, <<"dfm">>) THEN Raise
        ELSE [res |-> "submit", name |-> <<"dfm">>, content |-> NoFrame]

\* an entry of self.computing
FeatureComputing(unique_id, kind, username, name) ==
    [unique_id |-> unique_id, kind |-> "feature", type |-> kind,
     user |-> username, name |-> name]

compute(kind, parameters, username) ==
    LET args == [kind |-> kind, parameters |-> parameters, username |-> username]
        plan == compute_plan(map, computing, kind, parameters, username)
    IN
    /\ Idle
    /\ IF plan.res = "submit"
       THEN /\ Len(futures) < MaxTasks
            /\ futures' = Queue_add(futures, "feature")
            /\ current' = Append(current, Len(futures'))
            /\ computing' = Append(computing,
                   FeatureComputing(Len(futures'), kind, username, plan.name))
            /\ Call("compute", args, "success")
            /\ UNCHANGED <<reported, state_call, training, schemeVars, modelVars, writerVars, projectVars,
                           selectionVars, featureVars>>
       ELSE IF plan.res = "add" /\ add_res(map, plan.name, plan.content) # "raise"
       THEN /\ features_file' = add_file(features_file, plan.name, plan.content)
            /\ features_db' = add_feature(features_db, kind, plan.name, parameters,
                                          username, prefixed(plan.name, plan.content))
            /\ Len(features_db') <= MaxFeatureRows
            /\ map' = get_map(features_file')
            /\ Call("compute", args, "success")
            /\ UNCHANGED exceptFeatures
       ELSE /\ Call("compute", args, "raise")
            /\ UNCHANGED exceptRet

\* the reaper, for a job of self.computing whose task is finished: the
\* result of a successful task is added to the features, the task leaves
\* the queue and the job leaves the list
reap_computing(i) ==
    /\ Idle
    /\ i \in DOMAIN computing
    /\ computing[i].unique_id \in SeqToSet(current)
    /\ done(futures[computing[i].unique_id])
    /\ LET e == computing[i]
           df == DfOf(futures[e.unique_id].result)
           ok == /\ futures[e.unique_id].result \in {"success", "short"}
                 /\ add_res(map, e.name, df) # "raise"
       IN /\ IF ok
             THEN /\ features_file' = add_file(features_file, e.name, df)
                  /\ features_db' = add_feature(features_db, e.type, e.name, <<>>,
                                                e.user, prefixed(e.name, df))
                  /\ Len(features_db') <= MaxFeatureRows
                  /\ map' = get_map(features_file')
             ELSE UNCHANGED featureVars
          /\ current' = Queue_delete(current, e.unique_id)
          /\ computing' = SelectSeq(computing, LAMBDA x : x.unique_id # e.unique_id)
          /\ Call("reap_computing", [unique_id |-> e.unique_id],
                  IF ok THEN "success" ELSE "error")
    /\ UNCHANGED <<futures, reported, state_call, training, schemeVars, modelVars, writerVars, projectVars,
                   selectionVars>>

ComputeRequests ==
    {[kind |-> "regex", parameters |-> <<>>],
     [kind |-> "regex", parameters |-> [value |-> <<"x">>]],
     [kind |-> "sbert", parameters |-> [model |-> Generic]],
     [kind |-> "sbert", parameters |-> [model |-> <<"a", "/", "b">>]],
     [kind |-> "fasttext", parameters |-> [model |-> <<"a", "/", "b">>]],
     [kind |-> "dfm", parameters |-> <<>>],
     [kind |-> "dataset", parameters |-> [dataset_col |-> "c", dataset_type |-> "text"]],
     [kind |-> "dataset", parameters |-> [dataset_col |-> "cn", dataset_type |-> "text"]],
     [kind |-> "other", parameters |-> <<>>]}

NextCompute ==
    \/ \E r \in ComputeRequests, u \in Users : compute(r.kind, r.parameters, u)
    \/ \E i \in 1..MaxTasks : reap_computing(i)
    \/ executor_start
    \/ \E id \in 1..MaxTasks, result \in Results : worker_finish(id, result)

SpecCompute == Init /\ [][NextCompute]_vars

\* C12: a call of compute by a user who has a job in the list of jobs being
\* computed raises, submits no task to the queue and adds no job to the list;
\* a user who has none gets an sbert feature that does not exist yet
\* submitted, whatever the jobs of the other users; no user ever has two
\* jobs in the list
C12_OneJobPerUser ==
    [][/\ \A u \in Users : Len(SelectSeq(computing', LAMBDA e : e.user = u)) <= 1
       /\ IsCall("compute") =>
            LET u == ret'.args.username
                busy == \E i \in DOMAIN computing : computing[i].user = u
            IN
            /\ busy => /\ ret'.res = "raise"
                       /\ futures' = futures
                       /\ current' = current
                       /\ computing' = computing
            /\ (/\ ~busy
                /\ ret'.args.kind = "sbert"
                /\ sbert_name(ret'.args.parameters) \notin DOMAIN map)
               => /\ ret'.res = "success"
                  /\ Len(computing') = Len(computing) + 1
                  /\ computing'[Len(computing')].user = u]_vars

\* a second sbert job of a user was refused while the job of the first one
\* and a job of another user are in the list
C12_Witness ==
    /\ ret.op = "compute"
    /\ ret.res = "raise"
    /\ ret.args.kind = "sbert"
    /\ sbert_name(ret.args.parameters) \notin DOMAIN map
    /\ Len(computing) = 2
    /\ \E i \in DOMAIN computing : computing[i].user = ret.args.username
    /\ \E i \in DOMAIN computing : computing[i].user # ret.args.username

\* C13: what Queue.state reports for a task only moves forward: a task
\* reported done has ended (it is never one that has not started), and a
\* task once reported done is not reported in another state afterwards
C13_Monotonic ==
    [][(ret'.op = "state" /\ state_call.pos # 0) =>
         \A i \in DOMAIN ret'.r :
            LET x == ret'.r[i] IN
            /\ x.state \in {"running", "done"}
            /\ x.state = "done" => futures[x.id].state = "finished"
            /\ (x.id \in DOMAIN reported /\ reported[x.id] = "done")
                   => x.state = "done"]_vars

\* Queue.state has reported a task done that it had reported running, while
\* another task was in the stack
C13_Witness ==
    /\ ret.op = "state"
    /\ Len(ret.r) = 2
    /\ \E i \in DOMAIN ret.r : ret.r[i].state = "done"
    /\ \E i \in DOMAIN ret.r : ret.r[i].state = "running"
    /\ \A i \in DOMAIN ret.r : reported[ret.r[i].id] = ret.r[i].state

\* C14: after kill(id) of a task of the stack the signal of the task is set,
\* and when the next call of update_processes has run the task has ended, or
\* Queue.state has reported it cancelled or done, whether it was waiting or
\* running when it was killed
C14_KilledEndsWithinTick ==
    [][/\ (IsCall("kill") /\ ret'.res = "success")
            => futures'[ret'.args.unique_id].event
       /\ IsCall("update_processes")
            => \A id \in DOMAIN futures :
                  futures[id].event
                      => \/ done(futures'[id])
                         \/ /\ id \in DOMAIN reported'
                            /\ reported'[id] \in {"cancelled", "done"}]_vars

\* C15: a task that has ended leaves the stack only in update_processes,
\* after its result was handled: the result of a feature task that succeeded
\* is in the features when the task leaves the stack
C15_HandledBeforeDelete ==
    [][\A id \in SeqToSet(current) :
          (done(futures[id]) /\ id \notin SeqToSet(current'))
              => /\ IsCall("update_processes")
                 /\ (futures[id].kind = "feature" /\ futures[id].result = "success")
                        => \E i \in DOMAIN training :
                              /\ training[i].id = id
                              /\ training[i].name \in DOMAIN map'
                              /\ map'[training[i].name] \in
                                     {prefixed(training[i].name, DfOf("success"))}
                              /\ SeqToSet(map'[training[i].name])
                                     \subseteq SeqToSet(features_file'.columns)]_vars

(***************************************************************************)
(* Projects (server.py): create_project, delete_project, start_project     *)
(***************************************************************************)
\* slugify, on the characters of the names used here
slug_char(c) ==
    CASE c = "P" -> "p"
      [] c = "Q" -> "q"
      [] c = " " -> "-"
      [] OTHER -> c
slugify(name) == [i \in DOMAIN name |-> slug_char(name[i])]

ProjectNames == {<<"P">>, <<"p">>, <<"p", " ", "Q">>}
Slugs == {slugify(nm) : nm \in ProjectNames}

\* Server.existing_projects
existing_projects(dbs) == {dbs.projects[i].project_slug : i \in DOMAIN dbs.projects}

\* Server.exists
Server_exists(dbs, project_name) == slugify(project_name) \in existing_projects(dbs)

\* the two tests create_project starts with, left out
create_refused_Never(ds, dbs, project_name) == FALSE

\* the two tests create_project starts with: the slug is in the table
\* projects, or the directory of the slug exists
create_refused(ds, dbs, project_name) ==
    \/ Server_exists(dbs, project_name)
    \/ slugify(project_name) \in DOMAIN ds

\* the rows of rows whose position is in I, in the order of rows
Take(rows, I) ==
    LET F[k \in 0..Len(rows)] ==
            IF k = 0 THEN <<>>
            ELSE IF k \in I THEN Append(F[k - 1], rows[k]) ELSE F[k - 1]
    IN F[Len(rows)]

\* DataFrame.sample(k): any k rows (kept here in the order of the frame);
\* no outcome when k is larger than the frame (ValueError)
pd_sample(rows, k) ==
    {Take(rows, I) : I \in {J \in SUBSET DOMAIN rows : Cardinality(J) = k}}

\* str(i) for the ids of the corpora
Str(i) == <<"0", "1", "2", "3">>[i + 1]

\* round(a / b) of Python: to the nearest integer, halves to the even one
round(a, b) ==
    LET q == a \div b
        r == a % b
    IN IF 2 * r < b THEN q
       ELSE IF 2 * r > b THEN q + 1
       ELSE IF q % 2 = 0 THEN q ELSE q + 1

\* the uploaded corpora: rows (id, text, label, cat) of the csv
CsvRow(id, text, label, cat) == [id |-> id, text |-> text, label |-> label, cat |-> cat]
Corpora ==
    << <<CsvRow(1, "t", "a", "x"), CsvRow(2, "t", Null, "x"), CsvRow(3, "t", Null, "y")>>,
       <<CsvRow(1, Null, "a", "x"), CsvRow(2, "t", "b", "x"), CsvRow(3, "t", Null, "y")>>,
       <<CsvRow(1, "t", "a", "x"), CsvRow(1, "t", Null, "y"), CsvRow(2, "t", Null, "y")>> >>

\* step 1 of create_project: the index is forced to range(0, N) when the ids
\* are not unique, the rows without text are dropped, the label is None
\* without col_label, duplicated ids are dropped and the ids become strings
cleaned(csv, col_label) ==
    LET unique == Cardinality({csv[i].id : i \in DOMAIN csv}) = Len(csv)
        indexed == [i \in DOMAIN csv |->
                       [csv[i] EXCEPT !.id = IF unique THEN @ ELSE i - 1]]
        withtext == SelectSeq(indexed, LAMBDA r : r.text # Null)
        labelled == [i \in DOMAIN withtext |->
                        [withtext[i] EXCEPT !.label =
                            IF col_label = Null THEN Null ELSE @]]
        first == {i \in DOMAIN labelled :
                     \A j \in 1..(i - 1) : labelled[j].id # labelled[i].id}
    IN [i \in DOMAIN Take(labelled, first) |->
           [id |-> Str(Take(labelled, first)[i].id),
            label |-> Take(labelled, first)[i].label,
            cat |-> Take(labelled, first)[i].cat]]

\* content[f].groupby(cols_test): the groups, by sorted key; the rows whose
\* key is null are in no group
Cats == <<"x", "y">>
groups(rows) ==
    LET all == [k \in DOMAIN Cats |-> SelectSeq(rows, LAMBDA r : r.cat = Cats[k])]
    IN SelectSeq(all, LAMBDA g : g # <<>>)

\* df_grouped.apply(lambda x: x.sample(min(len(x), nb))), concatenated
RECURSIVE sample_groups(_, _)
sample_groups(gs, nb) ==
    IF gs = <<>> THEN {<<>>}
    ELSE {h \o t : h \in pd_sample(Head(gs), IF Len(Head(gs)) < nb
                                              THEN Len(Head(gs)) ELSE nb),
                   t \in sample_groups(Tail(gs), nb)}

\* step 2 of create_project: the test set
test_outcomes(c, n_test, cols_test) ==
    LET f == SelectSeq(c, LAMBDA r : r.label = Null) IN
    IF n_test = 0 THEN {[res |-> "none", rows |-> <<>>]}
    ELSE IF Len(f) < n_test THEN {[res |-> "error", rows |-> <<>>]}
    ELSE IF cols_test = <<>>
    THEN {[res |-> "written", rows |-> t] : t \in pd_sample(f, n_test)}
    ELSE IF groups(f) = <<>>
    THEN {[res |-> "raise", rows |-> <<>>]}        \* n_test / 0
    ELSE {[res |-> "written", rows |-> t] :
              t \in sample_groups(groups(f), round(n_test, Len(groups(f))))}

\* step 3 of create_project with no priority to the rows that have a label
train_outcomes_NoPriority(c, rows_test, n_train) ==
    LET ids == {rows_test[i].id : i \in DOMAIN rows_test}
    IN pd_sample(SelectSeq(c, LAMBDA r : r.id \notin ids), n_train)

\* step 3 of create_project: the train set, of what is left; no outcome
\* when sample raises
train_outcomes(c, rows_test, n_train) ==
    LET ids == {rows_test[i].id : i \in DOMAIN rows_test}
        left == SelectSeq(c, LAMBDA r : r.id \notin ids)
        f_notna == SelectSeq(left, LAMBDA r : r.label # Null)
        f_na == SelectSeq(left, LAMBDA r : r.label = Null)
    IN IF Len(f_notna) > n_train THEN pd_sample(f_notna, n_train)
       ELSE {f_notna \o t : t \in pd_sample(f_na, n_train - Len(f_notna))}

\* a project directory: the files it holds and the rows of three of them
Dir(files, rows_test, trainset, features) ==
    [files |-> files, test |-> rows_test, train |-> trainset,
     features |-> features]
Stored(rows) == [i \in DOMAIN rows |-> [id |-> rows[i].id, label |-> rows[i].label]]

\* trainset[[]].to_parquet(features_file): the index of the train set and
\* no column
train_index(trainset) ==
    [i \in DOMAIN trainset |-> [id |-> trainset[i].id, dataset |-> Null]]

\* Features.create_features_file (features.py): the ids of train and test,
\* each with the name of its file in the column dataset
create_features_file(dir) ==
    [i \in DOMAIN dir.train |-> [id |-> dir.train[i].id, dataset |-> "train"]]
    \o (IF "test" \in dir.files
        THEN [i \in DOMAIN dir.test |-> [id |-> dir.test[i].id, dataset |-> "test"]]
        ELSE <<>>)

\* Features.__init__ (features.py): the file is created if it does not exist
features_store(dir) ==
    IF "features" \in dir.files THEN dir.features ELSE create_features_file(dir)

\* list(df.unique()), in the order of first appearance
RECURSIVE unique(_)
unique(labels) ==
    IF labels = <<>> THEN <<>>
    ELSE <<Head(labels)>> \o unique(SelectSeq(Tail(labels), LAMBDA l : l # Head(labels)))

\* Users.set_auth: the row of (project, user) is updated, or inserted
set_auth(auth, username, project_slug, status) ==
    IF \E i \in DOMAIN auth : auth[i].project = project_slug /\ auth[i].user = username
    THEN [i \in DOMAIN auth |->
             IF auth[i].project = project_slug /\ auth[i].user = username
             THEN [auth[i] EXCEPT !.status = status] ELSE auth[i]]
    ELSE Append(auth, [project |-> project_slug, user |-> username, status |-> status])

\* Server.set_project_parameters: the row of the slug is updated, or inserted
set_project_parameters(rows, project_slug, username) ==
    IF \E i \in DOMAIN rows : rows[i].project_slug = project_slug
    THEN rows
    ELSE Append(rows, [project_slug |-> project_slug, user |-> username])

\* the database after the last part of create_project: the default scheme
\* and the labels of the train set, the rights, the parameters
created_rows(dbs, project_slug, username, col_label, trainset) ==
    LET df == SelectSeq(trainset, LAMBDA r : r.label # Null)
        labels == [i \in DOMAIN df |-> df[i].label]
        sch == IF col_label # Null
               THEN Append(dbs.schemes, [project |-> project_slug, name |-> "default",
                                         params |-> unique(labels)])
               ELSE dbs.schemes
        ann == IF col_label # Null
               THEN dbs.annotations \o
                    [i \in DOMAIN df |->
                        [action |-> "add", user |-> username, project |-> project_slug,
                         element_id |-> df[i].id, scheme |-> "default",
                         tag |-> df[i].label]]
               ELSE dbs.annotations
    IN [dbs EXCEPT !.schemes = sch,
                   !.annotations = ann,
                   !.auth = set_auth(set_auth(@, username, project_slug, "manager"),
                                     "root", project_slug, "manager"),
                   !.projects = set_project_parameters(@, project_slug, username)]

WithDir(ds, project_slug, dir) ==
    [s \in DOMAIN ds \cup {project_slug} |-> IF s = project_slug THEN dir ELSE ds[s]]

\* the outcomes of create_project: what it returns, the disk and the
\* database it leaves
create_project_outcomes(ds, dbs, params, username) ==
    LET project_slug == slugify(params.project_name)
        csv == Corpora[params.csv]
        raw == Dir({"data_raw"}, <<>>, <<>>, <<>>)
        c == cleaned(csv, params.col_label)
        Out(res, dir) == [res |-> res, dirs |-> WithDir(ds, project_slug, dir),
                          database |-> dbs]
    IN
    IF create_refused(ds, dbs, params.project_name)
    THEN {[res |-> "error", dirs |-> ds, database |-> dbs]}
    ELSE IF Len(csv) < params.n_test + params.n_train THEN {Out("error", raw)}
    ELSE UNION {
        IF t.res \in {"error", "raise"} THEN {Out(t.res, raw)}
        ELSE
        LET withtest == IF t.res = "written"
                        THEN Dir({"data_raw", "test"}, Stored(t.rows), <<>>, <<>>)
                        ELSE raw
            trains == train_outcomes(c, t.rows, params.n_train)
        IN IF trains = {} THEN {Out("raise", withtest)}
           ELSE {[res |-> "success",
                  dirs |-> WithDir(ds, project_slug,
                              Dir(withtest.files \cup {"data", "labels", "features"},
                                  withtest.test, Stored(tr), train_index(tr))),
                  database |-> created_rows(dbs, project_slug, username,
                                            params.col_label, tr)] : tr \in trains}
        : t \in test_outcomes(c, params.n_test, params.cols_test)}

create_project(params, username) ==
    /\ \E out \in create_project_outcomes(dirs, database, params, username) :
          /\ dirs' = out.dirs
          /\ database' = out.database
          /\ Call("create_project", [params |-> params, username |-> username],
                  out.res)
    /\ UNCHANGED <<projects, schemeVars, modelVars, writerVars, selectionVars, featureVars, queueVars,
                   jobVars>>

\* the rows of a table that are not of the project
NotOf(rows, project_slug) == SelectSeq(rows, LAMBDA r : r.project # project_slug)

\* Server.delete_project
delete_project(project_slug) ==
    /\ IF ~Server_exists(database, project_slug)
       THEN /\ Call("delete_project", [project_slug |-> project_slug], "error")
            /\ UNCHANGED <<dirs, database>>
       ELSE IF project_slug \notin DOMAIN dirs
       THEN /\ Call("delete_project", [project_slug |-> project_slug], "raise")
            /\ UNCHANGED <<dirs, database>>
       ELSE /\ dirs' = [s \in DOMAIN dirs \ {project_slug} |-> dirs[s]]
            /\ database' =
                   [database EXCEPT
                       !.projects = SelectSeq(@, LAMBDA r : r.project_slug # project_slug),
                       !.schemes = NotOf(@, project_slug),
                       !.annotations = NotOf(@, project_slug),
                       !.auth = NotOf(@, project_slug)]
            /\ Call("delete_project", [project_slug |-> project_slug], "success")
    /\ UNCHANGED <<projects, schemeVars, modelVars, writerVars, selectionVars, featureVars, queueVars,
                   jobVars>>

\* Schemes.exists
Schemes_exists(dbs, project_slug, name) ==
    \E i \in DOMAIN dbs.schemes :
        dbs.schemes[i].project = project_slug /\ dbs.schemes[i].name = name

\* Schemes.add_scheme of a loaded project: the table schemes afterwards
Schemes_add_scheme(dbs, project_slug, name, tags) ==
    IF Schemes_exists(dbs, project_slug, name) THEN dbs
    ELSE [dbs EXCEPT !.schemes =
             Append(@, [project |-> project_slug, name |-> name, params |-> tags])]

\* Schemes.__init__: a scheme default is added to a project that has none
Schemes_init(dbs, project_slug) ==
    IF \E i \in DOMAIN dbs.schemes : dbs.schemes[i].project = project_slug
    THEN dbs
    ELSE Schemes_add_scheme(dbs, project_slug, "default", <<>>)

\* Server.start_project, with Project.__init__
start_project(project_slug) ==
    /\ IF ~Server_exists(database, project_slug)
       THEN /\ Call("start_project", [project_slug |-> project_slug], "error")
            /\ UNCHANGED <<projects, database>>
       ELSE /\ projects' = projects \cup {project_slug}
            /\ database' = Schemes_init(database, project_slug)
            /\ Call("start_project", [project_slug |-> project_slug], "success")
    /\ UNCHANGED <<dirs, schemeVars, modelVars, writerVars, selectionVars, featureVars,
                   queueVars, jobVars>>

\* Schemes.add_scheme, called for a loaded project
project_add_scheme(project_slug, name) ==
    /\ project_slug \in projects
    /\ database' = Schemes_add_scheme(database, project_slug, name, <<>>)
    /\ Call("add_scheme", [project_slug |-> project_slug, name |-> name],
            IF Schemes_exists(database, project_slug, name)
            THEN "error" ELSE "success")
    /\ UNCHANGED <<dirs, projects, schemeVars, modelVars, writerVars, selectionVars, featureVars,
                   queueVars, jobVars>>

\* Server.log_action
log_action(user, action, project) ==
    /\ Len(database.logs) < MaxLogs
    /\ database' = [database EXCEPT !.logs =
                       Append(@, [user |-> user, project |-> project,
                                  action |-> action])]
    /\ Call("log_action", [user |-> user, action |-> action, project |-> project],
            "success")
    /\ UNCHANGED <<dirs, projects, schemeVars, modelVars, writerVars, selectionVars, featureVars,
                   queueVars, jobVars>>

\* the requests of the route /projects/new
ProjectDataModel(project_name, csv, col_label, n_train, n_test, cols_test) ==
    [project_name |-> project_name, csv |-> csv, col_label |-> col_label,
     n_train |-> n_train, n_test |-> n_test, cols_test |-> cols_test]
ProjectParams ==
    {ProjectDataModel(<<"P">>, 1, "label", 2, 1, <<>>),
     ProjectDataModel(<<"P">>, 1, "label", 1, 2, <<"cat">>),
     ProjectDataModel(<<"P">>, 1, "label", 2, 1, <<"cat">>),
     ProjectDataModel(<<"P">>, 1, "label", 2, 0, <<>>),
     ProjectDataModel(<<"p">>, 2, "label", 2, 0, <<>>),
     ProjectDataModel(<<"p">>, 1, "label", 2, 2, <<>>),
     ProjectDataModel(<<"p", " ", "Q">>, 3, Null, 2, 1, <<>>),
     ProjectDataModel(<<"p", " ", "Q">>, 2, "label", 2, 1, <<>>)}

NextProjects ==
    \/ \E params \in ProjectParams : create_project(params, "u1")
    \/ \E sl \in Slugs : delete_project(sl)
    \/ \E sl \in Slugs : start_project(sl)
    \/ \E sl \in Slugs : log_action("u1", "INFO", sl)
    \/ \E sl \in Slugs : project_add_scheme(sl, "default")

SpecProjects == Init /\ [][NextProjects]_vars

\* a call of create_project that succeeded, and what it was called with
Created == IsCall("create_project") /\ ret'.res = "success"
Ids(rows) == {rows[i].id : i \in DOMAIN rows}

\* C16: after create_project succeeds no id is both in the train and in the
\* test set, and the features store of the project holds each id of the
\* train and test sets exactly once, with the name of its set
C16_PartitionsAndStore ==
    [][Created =>
         LET dir == dirs'[slugify(ret'.args.params.project_name)]
             store == features_store(dir)
             Once(id, dataset) ==
                 /\ Cardinality({i \in DOMAIN store : store[i].id = id}) = 1
                 /\ \A i \in DOMAIN store :
                        store[i].id = id => store[i].dataset = dataset
         IN /\ Ids(dir.train) \cap Ids(dir.test) = {}
            /\ \A id \in Ids(dir.train) : Once(id, "train")
            /\ \A id \in Ids(dir.test) : Once(id, "test")
            /\ Ids(store) = Ids(dir.train) \cup Ids(dir.test)]_vars

\* the first part of C16 alone
C16_Disjoint ==
    [][Created =>
         LET dir == dirs'[slugify(ret'.args.params.project_name)]
         IN Ids(dir.train) \cap Ids(dir.test) = {}]_vars

\* C17: when create_project succeeds the train set has n_train rows and
\* the test set n_test rows, and there is no test file when n_test = 0
C17_Sizes ==
    [][Created =>
         LET dir == dirs'[slugify(ret'.args.params.project_name)]
             params == ret'.args.params
         IN /\ Len(dir.train) = params.n_train
            /\ params.n_test = 0 => "test" \notin dir.files
            /\ params.n_test # 0 => /\ "test" \in dir.files
                                    /\ Len(dir.test) = params.n_test]_vars

\* the id a row of the csv gets in the project
index_of(csv, i) ==
    Str(IF Cardinality({csv[j].id : j \in DOMAIN csv}) = Len(csv)
        THEN csv[i].id ELSE i - 1)

\* the rows of the csv that have a label, given the label column
labelled_rows(params) ==
    {i \in DOMAIN Corpora[params.csv] :
        params.col_label # Null /\ Corpora[params.csv][i].label # Null}

\* row i of the csv is in the train set with its label and is an
\* annotation of the default scheme by the user
Replayed(params, username, i, dir, dbs) ==
    LET csv == Corpora[params.csv]
        id == index_of(csv, i)
        project_slug == slugify(params.project_name)
    IN /\ \E k \in DOMAIN dir.train :
              dir.train[k] = [id |-> id, label |-> csv[i].label]
       /\ \E k \in DOMAIN dbs.annotations :
              dbs.annotations[k] =
                  [action |-> "add", user |-> username, project |-> project_slug,
                   element_id |-> id, scheme |-> "default", tag |-> csv[i].label]
       /\ \E k \in DOMAIN dbs.schemes :
              /\ dbs.schemes[k].project = project_slug
              /\ dbs.schemes[k].name = "default"
              /\ csv[i].label \in SeqToSet(dbs.schemes[k].params)

\* C18 as stated: every row of the test set has no label, and when the rows
\* with a label are at most n_train each of them is in the train set and is
\* an annotation of the default scheme by the creating user
C18_LabelledInTrain ==
    [][Created =>
         LET params == ret'.args.params
             dir == dirs'[slugify(params.project_name)]
         IN /\ \A k \in DOMAIN dir.test : dir.test[k].label = Null
            /\ Cardinality(labelled_rows(params)) <= params.n_train
                 => \A i \in labelled_rows(params) :
                       Replayed(params, ret'.args.username, i, dir, database')]_vars

\* C18, amended: every row of the test set has no label, and when the rows
\* with a label are at most n_train each of them that has a text is in the
\* train set and is an annotation of the default scheme by the creating user
C18_LabelledWithTextInTrain ==
    [][Created =>
         LET params == ret'.args.params
             dir == dirs'[slugify(params.project_name)]
         IN /\ \A k \in DOMAIN dir.test : dir.test[k].label = Null
            /\ Cardinality(labelled_rows(params)) <= params.n_train
                 => \A i \in labelled_rows(params) :
                       Corpora[params.csv][i].text # Null
                           => Replayed(params, ret'.args.username, i, dir,
                                       database')]_vars

\* a project was created with a row in the test set and a row with a label
\* in the train set, which is an annotation of the user
C18_Witness ==
    /\ ret.op = "create_project"
    /\ ret.res = "success"
    /\ slugify(ret.args.params.project_name) \in DOMAIN dirs
    /\ LET dir == dirs[slugify(ret.args.params.project_name)] IN
       /\ dir.test # <<>>
       /\ labelled_rows(ret.args.params) # {}
       /\ \A i \in labelled_rows(ret.args.params) :
              Replayed(ret.args.params, ret.args.username, i, dir, database)

\* C19: create_project of a name whose slug is in the table projects, or
\* whose directory exists, returns an error and leaves the disk and the
\* database as they are; no two rows of the table projects have the same
\* slug
C19_SlugUnique ==
    [][/\ \A i, j \in DOMAIN database'.projects :
              database'.projects[i].project_slug = database'.projects[j].project_slug
                  => i = j
       /\ (/\ IsCall("create_project")
           /\ \/ slugify(ret'.args.params.project_name) \in existing_projects(database)
              \/ slugify(ret'.args.params.project_name) \in DOMAIN dirs)
            => /\ ret'.res = "error"
               /\ dirs' = dirs
               /\ database' = database]_vars

\* create_project of a name was refused because its slug is the slug of a
\* project created under another name
C19_Witness ==
    /\ ret.op = "create_project"
    /\ ret.res = "error"
    /\ \E i \in DOMAIN database.projects :
          database.projects[i].project_slug = slugify(ret.args.params.project_name)
    /\ ret.args.params.project_name # slugify(ret.args.params.project_name)
    /\ Len(Corpora[ret.args.params.csv])
           >= ret.args.params.n_test + ret.args.params.n_train

\* C20: after delete_project(slug) succeeds the directory of the slug is
\* gone, no row of a table of the database is of the slug and the slug is
\* not a loaded project
C20_Deleted ==
    [][(IsCall("delete_project") /\ ret'.res = "success") =>
         LET project_slug == ret'.args.project_slug IN
         /\ project_slug \notin DOMAIN dirs'
         /\ project_slug \notin existing_projects(database')
         /\ \A i \in DOMAIN database'.schemes : database'.schemes[i].project # project_slug
         /\ \A i \in DOMAIN database'.annotations :
                database'.annotations[i].project # project_slug
         /\ \A i \in DOMAIN database'.auth : database'.auth[i].project # project_slug
         /\ \A i \in DOMAIN database'.logs : database'.logs[i].project # project_slug
         /\ project_slug \notin projects']_vars

\* Config.max_loaded_projects: the value of the environment variable
\* MAX_LOADED_PROJECTS (30 when it is not set), here the smallest cap
max_loaded_projects == 1

\* C21: the number of loaded projects is never above max_loaded_projects
C21_LoadedCap == Cardinality(projects) <= max_loaded_projects

\* C22: add_scheme of a name the project has returns an error and inserts
\* nothing, and the table schemes never has two rows of the same project
\* and name
C22_SchemeUnique ==
    [][/\ (/\ ret'.op = "add_scheme"
           /\ Schemes_exists(database, ret'.args.project_slug, ret'.args.name))
            => ret'.res = "error" /\ database' = database
       /\ \A i, j \in DOMAIN database'.schemes :
              (/\ database'.schemes[i].project = database'.schemes[j].project
               /\ database'.schemes[i].name = database'.schemes[j].name)
                  => i = j]_vars

(***************************************************************************)
(* Quick models (quickmodels.py) and the table models (db.py)              *)
(***************************************************************************)
ModelNames == {"m1", "m2"}
ModelTypes == {"knn", "other"}
Statuses == {"training", "trained"}
project_slug == "p"       \* QuickModels.project_slug
OtherProject == "q"

\* QuickModels.available_models: the types of model (knn stands for the five)
available_models_keys == {"knn"}

\* DatabaseManager.add_model: nothing is added when a row has the name,
\* whatever its project
add_model_rows(rows, project, name, user, status) ==
    IF \E i \in DOMAIN rows : rows[i].name = name THEN rows
    ELSE Append(rows, [project |-> project, name |-> name, user |-> user,
                       status |-> status])

\* DatabaseManager.available_models with no test of the status
available_models_AnyStatus(rows, project) ==
    {rows[i].name : i \in {j \in DOMAIN rows : rows[j].project = project}}

\* DatabaseManager.available_models: the names of the trained models of the
\* project
available_models(rows, project) ==
    {rows[i].name : i \in {j \in DOMAIN rows : /\ rows[j].project = project
                                                /\ rows[j].status = "trained"}}

\* QuickModels.exists
QuickModels_exists(rows, name) == name \in available_models(rows, project_slug)

\* QuickModels.loaded: set to {} by __init__ and never filled
QuickModels_loaded == {}

\* QuickModels.get returns a model (it raises otherwise)
QuickModels_get(rows, paths, name) ==
    /\ QuickModels_exists(rows, name)
    /\ name \in QuickModels_loaded \/ name \in paths

\* an entry QuickModelComputing of self.computing
QuickModelComputing(unique_id, kind, username, name) ==
    [unique_id |-> unique_id, kind |-> kind, type |-> "quickmodel",
     user |-> username, name |-> name]

\* QuickModels.compute_quickmodel: what the method does to the queue and to
\* its list of jobs
compute_quickmodel_call(user, name, model_type) ==
    LET args == [user |-> user, name |-> name, model_type |-> model_type] IN
    /\ Idle
    /\ IF model_type \notin available_models_keys
       THEN /\ Call("compute_quickmodel", args, "raise")
            /\ UNCHANGED <<queueVars, jobVars>>
       ELSE /\ Len(futures) < MaxTasks
            /\ futures' = Queue_add(futures, "quickmodel")
            /\ current' = Append(current, Len(futures'))
            /\ computing' = Append(computing,
                   QuickModelComputing(Len(futures'), "train_quickmodel", user, name))
            /\ Call("compute_quickmodel", args, "success")
            /\ UNCHANGED <<reported, state_call, training>>

\* QuickModels.compute_quickmodel
compute_quickmodel(user, name, model_type) ==
    /\ compute_quickmodel_call(user, name, model_type)
    /\ UNCHANGED <<modelVars, writerVars, schemeVars, selectionVars, featureVars, projectVars>>

\* QuickModels.start_predicting_process
start_predicting_process(name, username) ==
    LET args == [name |-> name, username |-> username] IN
    /\ Idle
    /\ IF ~QuickModels_exists(models, name) \/ ~QuickModels_get(models, model_paths, name)
       THEN /\ Call("start_predicting_process", args, "raise")
            /\ UNCHANGED <<queueVars, jobVars>>
       ELSE /\ Len(futures) < MaxTasks
            /\ futures' = Queue_add(futures, "prediction")
            /\ current' = Append(current, Len(futures'))
            /\ computing' = Append(computing,
                   QuickModelComputing(Len(futures'), "predict_quickmodel",
                                       username, name))
            /\ Call("start_predicting_process", args, "success")
            /\ UNCHANGED <<reported, state_call, training>>
    /\ UNCHANGED <<modelVars, writerVars, schemeVars, selectionVars, featureVars, projectVars>>

\* DatabaseManager.add_model, as the language models call it
add_model(project, name, user, status) ==
    /\ models' = add_model_rows(models, project, name, user, status)
    /\ Call("add_model", [project |-> project, name |-> name, status |-> status],
            IF models' = models THEN "error" ELSE "success")
    /\ UNCHANGED <<model_paths, queueVars, jobVars, schemeVars, selectionVars,
                   featureVars, projectVars, writerVars>>

\* QuickModels.delete: what the method does to the table and to the
\* directories
QuickModels_delete_call(name) ==
    IF ~QuickModels_exists(models, name)
    THEN /\ Call("delete", [name |-> name], "raise")
         /\ UNCHANGED modelVars
    ELSE /\ models' = SelectSeq(models, LAMBDA r :
                          ~(r.name = name /\ r.project = project_slug))
         /\ model_paths' = model_paths \ {name}
         /\ Call("delete", [name |-> name], "success")

\* QuickModels.delete
QuickModels_delete(name) ==
    /\ QuickModels_delete_call(name)
    /\ UNCHANGED <<queueVars, jobVars, schemeVars, selectionVars, featureVars,
                   projectVars, writerVars>>

\* the reaper, for a job of the quick models whose task is finished: a
\* training that succeeded has written the directory of the model and is
\* added to the table (QuickModels.add); the task leaves the queue and the
\* job leaves the list
reap_quickmodel(i) ==
    /\ Idle
    /\ i \in DOMAIN computing
    /\ computing[i].type = "quickmodel"
    /\ computing[i].unique_id \in SeqToSet(current)
    /\ done(futures[computing[i].unique_id])
    /\ LET e == computing[i]
           trained == /\ e.kind = "train_quickmodel"
                      /\ futures[e.unique_id].result = "success"
       IN /\ IF trained
             THEN /\ models' = add_model_rows(models, project_slug, e.name, e.user,
                                              "trained")
                  /\ model_paths' = model_paths \cup {e.name}
             ELSE UNCHANGED modelVars
          /\ current' = Queue_delete(current, e.unique_id)
          /\ computing' = SelectSeq(computing, LAMBDA x : x.unique_id # e.unique_id)
          /\ Call("reap_quickmodel", [unique_id |-> e.unique_id],
                  IF trained THEN "success" ELSE "error")
    /\ UNCHANGED <<futures, reported, state_call, training, schemeVars,
                   selectionVars, featureVars, projectVars, writerVars>>

\* DatabaseManager.change_model_status: the first row of (project, name)
\* gets the status "trained", whatever the argument; with no such row
\* .first() is None and the assignment raises AttributeError
change_model_status(project, name, status) ==
    LET hits == {i \in DOMAIN models :
                    models[i].name = name /\ models[i].project = project}
        args == [project |-> project, name |-> name, status |-> status]
    IN
    /\ IF hits = {}
       THEN /\ Call("change_model_status", args, "raise")
            /\ UNCHANGED models
       ELSE /\ models' = [models EXCEPT ![Min(hits)].status = "trained"]
            /\ Call("change_model_status", args, "success")
    /\ UNCHANGED <<model_paths, queueVars, jobVars, schemeVars, selectionVars,
                   featureVars, projectVars, writerVars>>

NextModels ==
    \/ \E nm \in ModelNames, st \in {"trained", "failed"} :
           change_model_status(project_slug, nm, st)
    \/ \E u \in Users, nm \in ModelNames, t \in ModelTypes :
           compute_quickmodel(u, nm, t)
    \/ \E u \in Users, nm \in ModelNames : start_predicting_process(nm, u)
    \/ \E pr \in {project_slug, OtherProject}, nm \in ModelNames, st \in Statuses :
           add_model(pr, nm, "u1", st)
    \/ \E nm \in ModelNames : QuickModels_delete(nm)
    \/ \E i \in 1..MaxTasks : reap_quickmodel(i)
    \/ executor_start
    \/ \E id \in 1..MaxTasks, result \in {"success", "exception"} :
           worker_finish(id, result)

SpecModels == Init /\ [][NextModels]_vars

\* C23: compute_quickmodel with the name of a model of the project raises
\* and submits no task, and the table models never has two rows of the
\* same project and name
C23_ModelNameUnique ==
    [][/\ \A i, j \in DOMAIN models' :
              (models'[i].project = models'[j].project
               /\ models'[i].name = models'[j].name) => i = j
       /\ (/\ IsCall("compute_quickmodel")
           /\ \E i \in DOMAIN models : /\ models[i].project = project_slug
                                       /\ models[i].name = ret'.args.name)
            => /\ ret'.res = "raise"
               /\ futures' = futures
               /\ current' = current
               /\ computing' = computing]_vars

\* C24: start_predicting_process submits a prediction only for a model of
\* the project whose status is trained; for any other name it raises and
\* the queue and the list of jobs are as before
C24_OnlyTrainedPredict ==
    [][IsCall("start_predicting_process") =>
         LET trained == \E i \in DOMAIN models :
                            /\ models[i].project = project_slug
                            /\ models[i].name = ret'.args.name
                            /\ models[i].status = "trained"
         IN /\ ret'.res = "success"
                => /\ trained
                   /\ Len(futures') = Len(futures) + 1
                   /\ futures'[Len(futures')].kind = "prediction"
                   /\ computing'[Len(computing')].name = ret'.args.name
            /\ ~trained
                => /\ ret'.res = "raise"
                   /\ futures' = futures
                   /\ current' = current
                   /\ computing' = computing]_vars

\* a prediction was refused for a model of the project that is in the table
\* with the status training and has its directory
C24_Witness ==
    /\ ret.op = "start_predicting_process"
    /\ ret.res = "raise"
    /\ ret.args.name \in model_paths
    /\ \E i \in DOMAIN models : /\ models[i].project = project_slug
                                /\ models[i].name = ret.args.name
                                /\ models[i].status = "training"

\* C25: no user has two trainings in the list of jobs, and compute_quickmodel
\* by a user who has one raises, adds no task to the queue and no job to the
\* list
C25_OneTrainingPerUser ==
    [][/\ \A u \in Users :
              Len(SelectSeq(computing', LAMBDA e :
                      e.user = u /\ e.kind = "train_quickmodel")) <= 1
       /\ (/\ IsCall("compute_quickmodel")
           /\ \E i \in DOMAIN computing : /\ computing[i].user = ret'.args.user
                                          /\ computing[i].kind = "train_quickmodel")
            => /\ ret'.res = "raise"
               /\ futures' = futures
               /\ current' = current
               /\ computing' = computing]_vars


(***************************************************************************)
(* Order of the annotations of one key                                     *)
(***************************************************************************)
\* the key of a row of the table annotations (the project is the one of
\* the table)
KeyOf(r) == <<r.element_id, r.scheme, r.user>>

\* C26: when push_tag appends a row, every earlier row of the same
\* (project, element, scheme, user) has a strictly smaller time
C26_TimestampsIncrease ==
    [][(IsCall("push_tag") /\ ret'.res = "success") =>
          \A i \in DOMAIN annotations :
              KeyOf(annotations[i]) = KeyOf(annotations'[Len(annotations')]) =>
                  annotations[i].time < annotations'[Len(annotations')].time]_vars



(***************************************************************************)
(* push_tag statement by statement.  The method takes no lock: it reads    *)
(* the schemes through self.available() on one connection, closes it, and  *)
(* opens another one for the INSERT.  A second caller (another thread or   *)
(* worker process of the server) may run between the two.                  *)
(***************************************************************************)
\* a = self.available() and the two tests: an error returns at once
push_tag_validate(w, element_id, tag, scheme, user, action) ==
    LET args == [element_id |-> element_id, tag |-> tag, scheme |-> scheme,
                 user |-> user, action |-> action]
    IN
    /\ pushing[w] = NotPushing
    /\ IF push_tag_res(schemes, tag, scheme) = "error"
       THEN /\ Call("push_tag", args, "error")
            /\ UNCHANGED pushing
       ELSE /\ pushing' = [pushing EXCEPT ![w] = [pc |-> "validated", args |-> args]]
            /\ UNCHANGED ret
    /\ UNCHANGED <<schemeVars, selectionVars, featureVars, queueVars, jobVars,
                   projectVars, modelVars>>

\* cursor.execute(INSERT ...); conn.commit(); return success
push_tag_insert(w) ==
    /\ pushing[w] # NotPushing
    /\ LET a == pushing[w].args IN
       /\ annotations' = Append(annotations,
              AnnotationRow(a.action, a.user, a.element_id, a.scheme, a.tag))
       /\ Len(annotations') <= MaxRows
       /\ Call("push_tag", a, "success")
    /\ pushing' = [pushing EXCEPT ![w] = NotPushing]
    /\ UNCHANGED <<schemes, now, selectionVars, featureVars, queueVars, jobVars,
                   projectVars, modelVars>>

NextWriters ==
    \/ Tick
    \/ \E w \in Writers, e \in Elements, t \in {"a", "c"}, s \in SchemeNames :
           push_tag_validate(w, e, t, s, "u1", "add")
    \/ \E w \in Writers : push_tag_insert(w)
    \/ \E n0 \in SchemeNames, tg \in LabelLists : add_scheme(n0, tg)
    \/ \E n0 \in SchemeNames : delete_scheme(n0)

SpecWriters == Init /\ [][NextWriters]_vars

\* the key a caller inside push_tag is about to write
WritingKey(w) ==
    <<pushing[w].args.element_id, pushing[w].args.scheme, pushing[w].args.user>>

\* C27: two callers are never both between the tests and the INSERT of
\* push_tag for the same (project, element_id, scheme, user)
C27_OneWriterPerKey ==
    \A w1 \in Writers, w2 \in Writers :
        (w1 # w2 /\ pushing[w1] # NotPushing /\ pushing[w2] # NotPushing) =>
            WritingKey(w1) # WritingKey(w2)



(***************************************************************************)
(* Routes of the quick models (app/routers/models.py).  Each route runs    *)
(* for a verified user; a route that raises answers with an HTTP error     *)
(* and logs nothing.                                                       *)
(***************************************************************************)
\* table auth of the project: u1 is a manager, u2 is a verified user with
\* no row for this project
ProjectAuth == [u \in {"u1"} |-> "manager"]

\* test_rights(action, username, project_slug): raises unless the user has
\* the right; a user with no row in auth for the project has no right
\* whatever the action, a manager has them all
test_rights(action, username) == username \in DOMAIN ProjectAuth

\* orchestrator.log_action(username, action, project.name)
logged(db, username, action) ==
    [db EXCEPT !.logs = Append(@, [user |-> username, project |-> project_slug,
                                   action |-> action])]

\* POST /models/simple/train
train_quickmodel(username, name, model_type) ==
    /\ compute_quickmodel_call(username, name, model_type)
    /\ IF ret'.res = "success"
       THEN database' = logged(database, username, "TRAIN SIMPLE MODEL")
       ELSE UNCHANGED database
    /\ UNCHANGED <<dirs, projects, modelVars, writerVars, schemeVars, selectionVars,
                   featureVars>>

\* POST /models/simple/delete
delete_quickmodel(username, name) ==
    /\ IF ~test_rights("DELETE", username)
       THEN /\ Call("delete_quickmodel", [username |-> username, name |-> name],
                    "raise")
            /\ UNCHANGED <<modelVars, database>>
       ELSE /\ QuickModels_delete_call(name)
            /\ IF ret'.res = "success"
               THEN database' = logged(database, username, "DELETE SIMPLE MODEL")
               ELSE UNCHANGED database
    /\ UNCHANGED <<dirs, projects, queueVars, jobVars, writerVars, schemeVars,
                   selectionVars, featureVars>>

NextRoutes ==
    \/ \E u \in Users, nm \in ModelNames, t \in ModelTypes : train_quickmodel(u, nm, t)
    \/ \E u \in Users, nm \in ModelNames : delete_quickmodel(u, nm)
    \/ \E i \in 1..MaxTasks : reap_quickmodel(i)
    \/ executor_start
    \/ \E id \in 1..MaxTasks, result \in {"success", "exception"} :
           worker_finish(id, result)

SpecRoutes == Init /\ [][NextRoutes]_vars

\* C28: every mutation a route has carried out (each one is logged with its
\* user once it is done) was asked by a user who has the rights on the
\* project, and no training in the list of jobs belongs to a user without
\* them
C28_RightsBeforeMutation ==
    /\ \A i \in DOMAIN database.logs :
           test_rights(database.logs[i].action, database.logs[i].user)
    /\ \A i \in DOMAIN computing :
           computing[i].kind = "train_quickmodel" =>
               test_rights("ADD", computing[i].user)



(***************************************************************************)
(* Selection modes of get_next                                             *)
(***************************************************************************)
\* the modes get_next has a branch for
SelectionModes == Selections \cup {"test"}

\* C29: a call of get_next with a selection mode it has no branch for
\* returns an error value: it gives no element and raises no exception
C29_UnknownModeIsError ==
    [][(IsCall("get_next") /\ ret'.args.selection \notin SelectionModes) =>
          ret'.res = "error"]_vars



(***************************************************************************)
(* History of an element after its scheme is deleted                       *)
(***************************************************************************)
\* the default of n_max in get_element_tags
n_max == 10

\* Schemes.get_element_tags: SELECT tag, action, user, time FROM annotations
\* WHERE scheme = ? AND element_id = ? ORDER BY time DESC LIMIT n_max; rows
\* of the same time come in any order, hence a set of possible results
get_element_tags(rows, element_id, scheme) ==
    LET hits == {i \in DOMAIN rows :
                    rows[i].scheme = scheme /\ rows[i].element_id = element_id}
        k == Cardinality(hits)
        orders == {p \in [1..k -> hits] :
                      /\ \A a \in 1..k, b \in 1..k : a # b => p[a] # p[b]
                      /\ \A a \in 1..k, b \in 1..k :
                             a < b => rows[p[a]].time >= rows[p[b]].time}
        limit == IF k < n_max THEN k ELSE n_max
    IN {[j \in 1..limit |-> <<rows[p[j]].tag, rows[p[j]].action,
                              rows[p[j]].user, rows[p[j]].time>>] : p \in orders}

\* C30: delete_scheme(name) leaves no row of that name in the table schemes
\* and leaves the table annotations as it was, so that get_element_tags
\* still returns, for every element, all the annotations the element had in
\* that scheme
C30_DeleteSchemeKeepsHistory ==
    [][IsCall("delete_scheme") =>
          /\ ~exists(schemes', ret'.args.name)
          /\ annotations' = annotations
          /\ \A e \in Elements :
                 /\ get_element_tags(annotations', e, ret'.args.name) =
                        get_element_tags(annotations, e, ret'.args.name)
                 /\ \A h \in get_element_tags(annotations', e, ret'.args.name) :
                        Len(h) = Cardinality({i \in DOMAIN annotations :
                                     /\ annotations[i].scheme = ret'.args.name
                                     /\ annotations[i].element_id = e})]_vars

\* a scheme with annotations has been deleted, and the history of one of its
\* elements is still read
C30_Witness ==
    /\ ret.op = "delete_scheme"
    /\ ~exists(schemes, ret.args.name)
    /\ \E e \in Elements :
           \E h \in get_element_tags(annotations, e, ret.args.name) : Len(h) = MaxRows



(***************************************************************************)
(* The reaper and the tasks that failed or were cancelled                  *)
(***************************************************************************)
\* the entry i of self.training is a task of the stack that has finished
\* with an error result or with an exception
FailedFeature(i) ==
    /\ training[i].id \in SeqToSet(current)
    /\ done(futures[training[i].id])
    /\ futures[training[i].id].result \in {"error", "exception"}

\* C31: a pass of update_processes takes every feature task that finished
\* with an error result or with an exception out of self.training and out
\* of the stack of the queue, and does not raise when the failed feature
\* tasks are the only finished tasks it tracks
C31_FailedTaskReaped ==
    [][IsCall("update_processes") =>
          /\ \A i \in DOMAIN training :
                 FailedFeature(i) =>
                     /\ training[i].id \notin SeqToSet(current')
                     /\ training[i].name \notin SeqToSet(Keys(training'))
          /\ (/\ \E i \in DOMAIN training : FailedFeature(i)
              /\ \A i \in DOMAIN training :
                     training[i].id \in SeqToSet(current) /\ done(futures[training[i].id])
                         => FailedFeature(i)
              /\ \A u \in DOMAIN projections : "queue" \notin DOMAIN projections[u])
                 => ret'.res = "success"]_vars



\* the ids Features tracks: the tasks of self.training and the tasks under
\* the key "queue" of self.projections
Tracked(tr, pj) ==
    {tr[i].id : i \in DOMAIN tr}
        \cup {pj[u].queue : u \in {v \in DOMAIN pj : "queue" \in DOMAIN pj[v]}}

\* C32: when a task that Features tracks has left the stack of the queue
\* (it was killed) and no tracked task of the stack has finished, the pass
\* of update_processes does not raise and no longer tracks the task
C32_ReaperToleratesKilled ==
    [][(/\ IsCall("update_processes")
        /\ \E id \in Tracked(training, projections) : id \notin SeqToSet(current)
        /\ \A id \in Tracked(training, projections) :
               id \in SeqToSet(current) => ~done(futures[id]))
          => /\ ret'.res = "success"
             /\ \A id \in Tracked(training, projections) :
                    id \notin SeqToSet(current) =>
                        id \notin Tracked(training', projections')]_vars



(***************************************************************************)
(* Frame of Features.delete and shape of the features store                *)
(***************************************************************************)
\* C33: a call of Features.delete(name) that succeeds leaves name out of the
\* map and leaves no column of name in the file, and every other feature
\* keeps its map entry, its columns in the file and its metadata row
C33_DeleteOnlyThatFeature ==
    [][(IsCall("delete") /\ ret'.res = "success") =>
          LET name == ret'.args.name IN
          /\ name \notin DOMAIN map'
          /\ \A c \in SeqToSet(features_file'.columns) : split_first(c) # name
          /\ \A other \in DOMAIN map \ {name} :
                 /\ other \in DOMAIN map'
                 /\ map'[other] = map[other]
                 /\ SeqToSet(map[other]) \subseteq SeqToSet(features_file'.columns)
          /\ \A i \in DOMAIN features_db :
                 features_db[i].name # name =>
                     \E j \in DOMAIN features_db' : features_db'[j] = features_db[i]]_vars


QueueKinds == {"sbert", "fasttext", "dfm"}

\* the name compute gives to the entry of self.computing, by kind; for
\* fasttext the name is extended with the model after the test of existence
computing_name(kind, parameters) ==
    IF kind = "sbert" THEN sbert_name(parameters)
    ELSE IF kind = "fasttext"
    THEN <<"fasttext_">> \o parameters.model \o <<"_">> \o parameters.model
    ELSE <<"dfm">>

C36_StatusIsSet ==
    [][(IsCall("change_model_status") /\ ret'.res = "success") =>
          LET a == ret'.args IN
          /\ \A i \in DOMAIN models' :
                 (models'[i].name = a.name /\ models'[i].project = a.project)
                     => models'[i].status = a.status
          /\ a.status # "trained" => a.name \notin available_models(models', a.project)]_vars



(***************************************************************************)
(* What QuickModels.training reports                                       *)
(***************************************************************************)
\* QuickModels.training: the users (the keys of the dict) of the entries of
\* self.computing whose kind is "quickmodel"
QuickModels_training(comp) ==
    {comp[i].user : i \in {j \in DOMAIN comp : comp[j].kind = "quickmodel"}}

\* C37: training() holds the user of every training of a quick model that
\* is in the list of jobs, and no user who has no such job in the list
C37_TrainingReported ==
    /\ \A i \in DOMAIN computing :
           computing[i].kind = "train_quickmodel" =>
               computing[i].user \in QuickModels_training(computing)
    /\ \A u \in QuickModels_training(computing) :
           \E i \in DOMAIN computing :
               computing[i].kind = "train_quickmodel" /\ computing[i].user = u



(***************************************************************************)
(* create_project that fails                                               *)
(***************************************************************************)
\* C38: a call of create_project that returns an error or raises leaves the
\* disk and the database as they were: no directory, no file and no row of
\* the project is left behind
C38_AllOrNothing ==
    [][(IsCall("create_project") /\ ret'.res # "success") =>
          (dirs' = dirs /\ database' = database)]_vars



(***************************************************************************)
(* The history given to get_next                                           *)
(***************************************************************************)
\* C39: the element get_next returns is never one of the ids of the list
\* history of the call, whatever the selection mode and the sample
C39_HistoryExcluded ==
    [][(IsCall("get_next") /\ ret'.res = "element") =>
          ret'.out \notin SeqToSet(ret'.args.history)]_vars



(***************************************************************************)
(* Project.update_simplemodel (server.py)                                  *)
(***************************************************************************)
\* a SimpleModelModel (features None is the empty list here: both fail the
\* first test); params stands for the hyperparameters, which the
\* validation class of the model accepts ("valid") or refuses with a
\* ValidationError ("invalid")
SimpleModelModel(features, model, scheme, params) ==
    [features |-> features, model |-> model, scheme |-> scheme, params |-> params]

SimpleModelRequests ==
    {SimpleModelModel(<<"f">>, "knn", "default", "valid"),
     SimpleModelModel(<<>>, "knn", "default", "valid"),
     SimpleModelModel(<<"f">>, "other", "default", "valid"),
     SimpleModelModel(<<"f">>, "knn", "other", "valid"),
     SimpleModelModel(<<"f">>, "knn", "default", "invalid")}

\* the tests of update_simplemodel, in the order of the code; df_scheme is
\* get_scheme_data(scheme): one row for each element that has an annotation
\* "add" in the scheme, whatever its tag
update_simplemodel_res(rows, tbl, simplemodel, min_rows) ==
    LET a == available(tbl) IN
    IF Len(simplemodel.features) = 0 THEN "error"
    ELSE IF simplemodel.model \notin available_models_keys THEN "error"
    ELSE IF simplemodel.scheme \notin DOMAIN a THEN "error"
    ELSE IF Len(a[simplemodel.scheme]) < 2 THEN "error"
    ELSE IF simplemodel.params = "invalid" THEN "error"
    ELSE IF \E df_scheme \in get_scheme_data(rows, tbl, simplemodel.scheme, {"add"}) :
                Cardinality(DOMAIN df_scheme) < min_rows
    THEN "error"
    ELSE "success"

\* Project.update_simplemodel; when every test has passed, add_simplemodel
\* hands the training to the queue
update_simplemodel(simplemodel, username, min_rows) ==
    LET res == update_simplemodel_res(annotations, schemes, simplemodel, min_rows) IN
    /\ Call("update_simplemodel",
            [simplemodel |-> simplemodel, username |-> username, n_min |-> min_rows],
            res)
    /\ IF res = "success"
       THEN /\ Len(futures) < MaxTasks
            /\ futures' = Queue_add(futures, "simplemodel")
            /\ current' = Append(current, Len(futures'))
       ELSE UNCHANGED <<futures, current>>
    /\ UNCHANGED <<reported, state_call, jobVars, schemeVars, selectionVars,
                   featureVars, projectVars, modelVars, writerVars>>

NextSimple ==
    \/ Tick
    \/ \E e \in Elements, t \in {"a", Null} : push_tag(e, t, "default", "u1", "add")
    \/ \E tg \in {<<"a">>, <<"a", "b">>} : add_scheme("default", tg)
    \/ delete_scheme("default")
    \/ \E sm \in SimpleModelRequests, k \in 1..MaxRows :
           update_simplemodel(sm, "u1", k)

SpecSimple == Init /\ [][NextSimple]_vars

\* the elements whose current label in the scheme is not null, for one of
\* the data frames get_scheme_data may return
Annotated(df) == {e \in DOMAIN df : df[e] # Null}

\* C40: update_simplemodel returns an error, and leaves the queue and the
\* models as they are, when the features are missing or empty, the model
\* kind or the scheme is unknown, the scheme has fewer than 2 labels, the
\* hyperparameters are invalid, or fewer than n_min elements are annotated
C40_OnlyValidSubmitted ==
    [][IsCall("update_simplemodel") =>
          LET sm == ret'.args.simplemodel
              a == available(schemes)
              invalid ==
                  \/ sm.features = <<>>
                  \/ sm.model \notin available_models_keys
                  \/ sm.scheme \notin DOMAIN a
                  \/ Len(a[sm.scheme]) < 2
                  \/ sm.params = "invalid"
                  \/ \A df \in get_scheme_data(annotations, schemes, sm.scheme, {"add"}) :
                         Cardinality(Annotated(df)) < ret'.args.n_min
          IN invalid =>
                 /\ ret'.res = "error"
                 /\ UNCHANGED <<queueVars, jobVars, selectionVars, modelVars>>]_vars


==============================================================================
